---- MODULE Spec2Model ----
(***************************************************************************)
(* Iteration engine of the prompt iteration workbench: phase sequencing,   *)
(* run_next_step with its single repair pass, run_iterations with          *)
(* cooperative cancellation, history restore and the history records.      *)
(*                                                                         *)
(* Python objects carry an identity (sid for a ProjectState, hid for a     *)
(* history list, oid for an IterationRecord) so that copying and in-place  *)
(* mutation are distinguishable.                                           *)
(***************************************************************************)
EXTENDS Integers, Sequences, FiniteSets, TLC

VARIABLES state, caller_tier, phase_model_tier, now, last, run, stop_requested, client,
          architect, applied, ui

vars == <<state, caller_tier, phase_model_tier, now, last, run, stop_requested, client,
          architect, applied, ui>>

----------------------------------------------------------------------------
(* Bounds of the exploration *)

MaxHistory == 4

MaxIterations == 2

\* The largest max_retries an LLMClient is built with.
MaxRetries == 2

\* Prompt generations of the UI explored for one project.
MaxGenerations == 1

----------------------------------------------------------------------------
(* str helpers *)

\* str.strip() on the strings that occur.
Strip(s) == IF s \in {"", " ", "  "} THEN "" ELSE s

\* str.strip() of a note given as the sequence of the strings it is concatenated from:
\* blank parts at both ends are dropped.
RECURSIVE StripNote(_)
StripNote(n) ==
    IF n = <<>> THEN n
    ELSE IF Strip(Head(n)) = "" THEN StripNote(Tail(n))
    ELSE IF Strip(n[Len(n)]) = "" THEN StripNote(SubSeq(n, 1, Len(n) - 1))
    ELSE n

----------------------------------------------------------------------------
(* models.py *)

HISTORY_EVENT_PHASE_STEP == "phase_step"

HISTORY_EVENT_PROMPT_ARCHITECT == "prompt_architect"

HISTORY_EVENT_REPAIR == "repair"

HISTORY_EVENT_RESTORE == "restore"

PHASE_SEQUENCE == <<"additive", "reductive">>

\* IterationRecord.__post_init__: pair_index and iteration_index are kept in step.
PostInit(r) ==
    IF r.iteration_index <= 0 /\ r.pair_index > 0
    THEN [r EXCEPT !.iteration_index = r.pair_index]
    ELSE IF r.pair_index <= 0 /\ r.iteration_index > 0
    THEN [r EXCEPT !.pair_index = r.iteration_index]
    ELSE IF r.iteration_index > 0 /\ r.pair_index > 0 /\ r.iteration_index # r.pair_index
    THEN [r EXCEPT !.pair_index = r.iteration_index]
    ELSE r

\* IterationRecord(...): the dataclass constructor; unspecified fields take their defaults,
\* created_at defaults to the current time.
IterationRecord(oid, event_type, iteration_index, pair_index, phase_step_index, phase_name, model_used, note_summary, prompt_rendered, output_snapshot, created_at) ==
    PostInit([oid |-> oid,
              event_type |-> event_type,
              iteration_index |-> iteration_index,
              pair_index |-> pair_index,
              phase_step_index |-> phase_step_index,
              phase_name |-> phase_name,
              model_used |-> model_used,
              note_summary |-> note_summary,
              change_summary |-> "",
              prompt_rendered |-> prompt_rendered,
              output_snapshot |-> output_snapshot,
              created_at |-> created_at])

\* Mutation: history=list(state.history), a new list of the same record objects.
CopyRecord_same_object(r, oid) ==
    PostInit(r)

\* Mutation: the copy is built without created_at and is stamped anew.
CopyRecord_new_timestamp(r, oid) ==
    PostInit([r EXCEPT !.oid = oid, !.created_at = r.created_at + 1])

\* IterationRecord(**record.__dict__): a new object with every field of the original,
\* created_at included.
CopyRecord(r, oid) ==
    PostInit([r EXCEPT !.oid = oid])

make_prompt_architect_event(oid, model_used, note_summary, t) ==
    IterationRecord(oid, HISTORY_EVENT_PROMPT_ARCHITECT, 0, 0, 0, "",
                    model_used, StripNote(note_summary), <<>>, "", t)

\* Mutation: the repair event is numbered like a first additive step.
make_repair_event_numbered(oid, model_used, note_summary, prompt_rendered, output_snapshot, t) ==
    IterationRecord(oid, HISTORY_EVENT_REPAIR, 1, 1, 1, "additive",
                    model_used, StripNote(note_summary), prompt_rendered, output_snapshot, t)

make_repair_event(oid, model_used, note_summary, prompt_rendered, output_snapshot, t) ==
    IterationRecord(oid, HISTORY_EVENT_REPAIR, 0, 0, 0, "",
                    model_used, StripNote(note_summary), prompt_rendered, output_snapshot, t)

make_restore_event(oid, note_summary, output_snapshot, t) ==
    IterationRecord(oid, HISTORY_EVENT_RESTORE, 0, 0, 0, "",
                    "", note_summary, <<>>, output_snapshot, t)

----------------------------------------------------------------------------
(* Object identities *)

UsedIds(st) == {st.sid, st.hid} \cup {st.history[i].oid : i \in 1..Len(st.history)}

\* The k-th identity of a new object: one that no object reachable from used carries.
FreshId(used, k) == (CHOOSE m \in used : \A x \in used : x <= m) + k

----------------------------------------------------------------------------
(* Strings.  A template or a prompt is a sequence of pieces: literal text, or a *)
(* {{NAME}} placeholder.  LLM outputs are atomic strings.                       *)

Lit(s) == [kind |-> "lit", v |-> s]

Tok(n) == [kind |-> "tok", v |-> n]

\* A placeholder written with blanks inside the braces, {{ NAME }}.
PaddedTok(n) == [kind |-> "ptok", v |-> n]

\* The texts an LLM call can return.
TEXT_OBJECT == "{}"

TEXT_BROKEN == "{"

TEXT_CODE == "x = 1"

Texts == {TEXT_OBJECT, TEXT_BROKEN, TEXT_CODE}

\* str.upper() on the format names that occur.
Upper(s) ==
    CASE s \in {"JSON", "json", "Json"} -> "JSON"
      [] s \in {"PYTHON", "Python", "python"} -> "PYTHON"
      [] s \in {"MARKDOWN", "Markdown", "markdown"} -> "MARKDOWN"
      [] s \in {"TEXT", "Text", "text"} -> "TEXT"
      [] s \in {"NOT_STARTED", "not_started"} -> "NOT_STARTED"
      [] OTHER -> s

----------------------------------------------------------------------------
(* validators.py *)

ValidationResult(ok, message, applicable, format_name) ==
    [ok |-> ok, message |-> message, applicable |-> applicable, format_name |-> format_name]

\* json.loads succeeds on the text.
JsonLoads(text) == text = TEXT_OBJECT

\* exc.msg, exc.lineno, exc.colno of the JSONDecodeError.
JsonErrorText(text) ==
    IF text = TEXT_BROKEN
    THEN "Expecting property name enclosed in double quotes at line 1, column 2."
    ELSE "Expecting value at line 1, column 1."

\* ast.parse succeeds on the text.
AstParse(text) == text \in {TEXT_OBJECT, TEXT_CODE, ""}

validate_json(text) ==
    IF JsonLoads(text)
    THEN ValidationResult(TRUE, <<"Valid JSON.">>, TRUE, "JSON")
    ELSE ValidationResult(FALSE, <<"Invalid JSON: ", JsonErrorText(text)>>, TRUE, "JSON")

validate_python(text) ==
    IF AstParse(text)
    THEN ValidationResult(TRUE, <<"Valid Python syntax.">>, TRUE, "PYTHON")
    ELSE ValidationResult(FALSE, <<"Invalid Python: ", "'{' was never closed at line 1, column 1.">>,
                          TRUE, "PYTHON")

\* Mutation: the result for a format without a validator is reported as applicable.
validate_for_format_always_applicable(text, output_format) ==
    LET normalized_format == Upper(Strip(output_format))
    IN  IF normalized_format = "JSON" THEN validate_json(text)
        ELSE IF normalized_format = "PYTHON" THEN validate_python(text)
        ELSE ValidationResult(TRUE,
                              <<"Validation not applicable for format ",
                                IF normalized_format = "" THEN "TEXT" ELSE normalized_format>>,
                              TRUE,
                              IF normalized_format = "" THEN "TEXT" ELSE normalized_format)

validate_for_format(text, output_format) ==
    LET normalized_format == Upper(Strip(output_format))
    IN  IF normalized_format = "JSON" THEN validate_json(text)
        ELSE IF normalized_format = "PYTHON" THEN validate_python(text)
        ELSE ValidationResult(TRUE,
                              <<"Validation not applicable for format ",
                                IF normalized_format = "" THEN "TEXT" ELSE normalized_format>>,
                              FALSE,
                              IF normalized_format = "" THEN "TEXT" ELSE normalized_format)

----------------------------------------------------------------------------
(* formats.py *)

get_format_guidance(format_name) ==
    LET normalized == Upper(Strip(IF format_name = "" THEN "Text" ELSE format_name))
    IN  CASE normalized = "JSON" -> "Output format guidance: return valid JSON only."
          [] normalized = "MARKDOWN" -> "Output format guidance: return clear Markdown."
          [] normalized = "PYTHON" -> "Output format guidance: return syntactically valid Python code."
          [] OTHER -> "Output format guidance: return plain text only."

----------------------------------------------------------------------------
(* prompt_templates.py *)

SUPPORTED_TOKENS == {"OUTCOME", "REQUIREMENTS", "SPECIAL_RESOURCES", "FORMAT", "FORMAT_GUIDANCE",
                     "PHASE_RULES", "CURRENT_OUTPUT", "ITERATION_INDEX", "PHASE_NAME"}

build_context(st, phase_name, iteration_index) ==
    [token \in SUPPORTED_TOKENS |->
        CASE token = "OUTCOME" -> <<Lit(st.outcome)>>
          [] token = "REQUIREMENTS" -> <<Lit(st.requirements_constraints)>>
          [] token = "SPECIAL_RESOURCES" -> <<Lit(st.special_resources)>>
          [] token = "FORMAT" -> <<Lit(st.output_format)>>
          [] token = "FORMAT_GUIDANCE" ->
                <<Lit(get_format_guidance(IF st.output_format = "" THEN "Text" ELSE st.output_format))>>
          [] token = "PHASE_RULES" ->
                <<Lit(IF phase_name = "additive" THEN st.additive_phase_allowed_changes
                      ELSE IF phase_name = "reductive" THEN st.reductive_phase_allowed_changes
                      ELSE "")>>
          [] token = "CURRENT_OUTPUT" -> <<Lit(st.current_output)>>
          [] token = "ITERATION_INDEX" -> <<Lit(ToString(iteration_index))>>
          [] token = "PHASE_NAME" -> <<Lit(phase_name)>>]

\* Mutation: the text put in place of a placeholder is scanned for placeholders again.
RECURSIVE render_template_expands_values(_, _)
render_template_expands_values(template_text, context) ==
    IF template_text = <<>> THEN <<>>
    ELSE LET piece == Head(template_text)
             rest == render_template_expands_values(Tail(template_text), context)
         IN  IF piece.kind \in {"tok", "ptok"} /\ piece.v \in SUPPORTED_TOKENS
             THEN (IF context[piece.v] = <<Lit("Fill {{PHASE_NAME}} in")>>
                   THEN <<Lit("Fill ")>> \o context["PHASE_NAME"] \o <<Lit(" in")>>
                   ELSE context[piece.v]) \o rest
             ELSE <<piece>> \o rest

\* One pass of re.sub over the template: a known placeholder, with or without blanks inside
\* the braces, becomes its value, anything else stays as written.
RECURSIVE render_template(_, _)
render_template(template_text, context) ==
    IF template_text = <<>> THEN <<>>
    ELSE LET piece == Head(template_text)
             rest == render_template(Tail(template_text), context)
         IN  IF piece.kind \in {"tok", "ptok"} /\ piece.v \in SUPPORTED_TOKENS
             THEN context[piece.v] \o rest
             ELSE <<piece>> \o rest

\* The last application of a function explored on its own: its name, its arguments and
\* what it returned.
Application(op, args, result) == [op |-> op, args |-> args, result |-> result]

NoApplication == Application("none", <<>>, <<>>)

----------------------------------------------------------------------------
(* Exceptions and the LLM client as seen by the engine *)

NoError == [type |-> "none", detail |-> ""]

ValueError(message) == [type |-> "ValueError", detail |-> message]

IndexError(message) == [type |-> "IndexError", detail |-> message]

ConfigError == [type |-> "ConfigError", detail |-> "missing required environment variables"]

LLMError(category) == [type |-> "LLMError", detail |-> category]

ErrorCategory == {"auth", "rate_limit", "network", "invalid_request", "server", "unknown"}

\* The categories of the failures injected into the engine's calls.
InjectedErrors == {"rate_limit", "auth"}

\* What one generate_text call does: it returns a text or raises an LLMError.
Replies == [kind : {"text"}, v : Texts] \cup [kind : {"error"}, v : InjectedErrors \cap ErrorCategory]

\* The replies injected into the phase call, and into the repair call.
PhaseReplies == {r \in Replies : r.v # TEXT_CODE}

RepairReplies == Replies

NoReply == [kind |-> "none", v |-> ""]

ModelTier == {"budget", "premium"}


\* LLMClient.resolve_model with the configured model names.
resolve_model(tier) == IF tier = "budget" THEN "test-budget" ELSE "test-premium"

----------------------------------------------------------------------------
(* models.py: ProjectState *)

ProjectState(sid, hid, schema_version, outcome, requirements_constraints, special_resources, iterations, output_format, additive_phase_allowed_changes, reductive_phase_allowed_changes, additive_prompt_template, reductive_prompt_template, current_output, history) ==
    [sid |-> sid,
     hid |-> hid,
     schema_version |-> schema_version,
     outcome |-> outcome,
     requirements_constraints |-> requirements_constraints,
     special_resources |-> special_resources,
     iterations |-> iterations,
     output_format |-> output_format,
     additive_phase_allowed_changes |-> additive_phase_allowed_changes,
     reductive_phase_allowed_changes |-> reductive_phase_allowed_changes,
     additive_prompt_template |-> additive_prompt_template,
     reductive_prompt_template |-> reductive_prompt_template,
     current_output |-> current_output,
     history |-> history]

\* No object (None, or nothing returned because the call raised).
NoState == [sid |-> 0]

\* Two references x and y into the heap: x as it reads after y was mutated in place.
Sync(x, y) ==
    LET x1 == IF x.sid = y.sid THEN y ELSE x
    IN  IF x1.hid = y.hid THEN [x1 EXCEPT !.history = y.history] ELSE x1

\* The caller keeps st and drops every other object: identities are renamed to the
\* smallest ones, in order.
Canon(st) ==
    [st EXCEPT !.sid = 1, !.hid = 2,
               !.history = [i \in 1..Len(st.history) |-> [st.history[i] EXCEPT !.oid = 2 + i]]]

----------------------------------------------------------------------------
(* engine.py *)

NoOptions == [present |-> FALSE, v |-> 0]

RunOptions(iterations_override) == [present |-> TRUE, v |-> iterations_override]

normalize_iterations(st, options) ==
    LET iterations_raw == IF options.present THEN options.v ELSE st.iterations
    IN  IF iterations_raw < 1
        THEN [raised |-> ValueError("Iterations must be >= 1."), value |-> 0]
        ELSE [raised |-> NoError, value |-> iterations_raw]

\* Mutation: history=state.history, the copy shares the caller's list.
apply_run_options_shares_history(st, options) ==
    LET normalized_iterations == normalize_iterations(st, options)
        used == UsedIds(st)
    IN  IF normalized_iterations.raised # NoError
        THEN [raised |-> normalized_iterations.raised, ret |-> NoState]
        ELSE [raised |-> NoError,
              ret |-> ProjectState(FreshId(used, 1), st.hid,
                                   st.schema_version, st.outcome, st.requirements_constraints,
                                   st.special_resources, normalized_iterations.value,
                                   st.output_format, st.additive_phase_allowed_changes,
                                   st.reductive_phase_allowed_changes,
                                   st.additive_prompt_template, st.reductive_prompt_template,
                                   st.current_output, st.history)]

\* A new ProjectState with a new history list of new records.
apply_run_options(st, options) ==
    LET normalized_iterations == normalize_iterations(st, options)
        used == UsedIds(st)
    IN  IF normalized_iterations.raised # NoError
        THEN [raised |-> normalized_iterations.raised, ret |-> NoState]
        ELSE [raised |-> NoError,
              ret |-> ProjectState(FreshId(used, 1), FreshId(used, 2),
                                   st.schema_version, st.outcome, st.requirements_constraints,
                                   st.special_resources, normalized_iterations.value,
                                   st.output_format, st.additive_phase_allowed_changes,
                                   st.reductive_phase_allowed_changes,
                                   st.additive_prompt_template, st.reductive_prompt_template,
                                   st.current_output,
                                   [i \in 1..Len(st.history) |->
                                        CopyRecord(st.history[i], FreshId(used, 2 + i))])]

\* Mutation: phase_step_index starts again at 1 in every iteration.
plan_steps_index_per_iteration(st, options, t) ==
    LET planned_state == apply_run_options(st, options)
        used == UsedIds(st) \cup UsedIds(planned_state.ret)
        n == Len(PHASE_SEQUENCE)
    IN  IF planned_state.raised # NoError
        THEN [raised |-> planned_state.raised, steps |-> <<>>, arg |-> st]
        ELSE [raised |-> NoError,
              steps |-> [k \in 1..(planned_state.ret.iterations * n) |->
                            IterationRecord(FreshId(used, k), HISTORY_EVENT_PHASE_STEP,
                                            ((k - 1) \div n) + 1, ((k - 1) \div n) + 1,
                                            ((k - 1) % n) + 1,
                                            PHASE_SEQUENCE[((k - 1) % n) + 1],
                                            "", <<>>, <<>>, "", t)],
              arg |-> Sync(st, planned_state.ret)]

\* The k-th planned record is made in turn ((k - 1) div 2) + 1 of the outer loop, at
\* position ((k - 1) mod 2) + 1 of PHASE_SEQUENCE, with the running count k.  arg is the
\* caller's state as it reads after the call.
plan_steps(st, options, t) ==
    LET planned_state == apply_run_options(st, options)
        used == UsedIds(st) \cup UsedIds(planned_state.ret)
        n == Len(PHASE_SEQUENCE)
    IN  IF planned_state.raised # NoError
        THEN [raised |-> planned_state.raised, steps |-> <<>>, arg |-> st]
        ELSE [raised |-> NoError,
              steps |-> [k \in 1..(planned_state.ret.iterations * n) |->
                            IterationRecord(FreshId(used, k), HISTORY_EVENT_PHASE_STEP,
                                            ((k - 1) \div n) + 1, ((k - 1) \div n) + 1,
                                            k,
                                            PHASE_SEQUENCE[((k - 1) % n) + 1],
                                            "", <<>>, <<>>, "", t)],
              arg |-> Sync(st, planned_state.ret)]

InPhaseSequence(name) == \E i \in 1..Len(PHASE_SEQUENCE) : PHASE_SEQUENCE[i] = name

IsPhaseStep(record) ==
    record.event_type = HISTORY_EVENT_PHASE_STEP /\ InPhaseSequence(record.phase_name)

phase_step_history(records) == SelectSeq(records, IsPhaseStep)

\* Mutation: every history record is counted, not only the phase steps.
_next_phase_metadata_counts_all(st) ==
    LET next_phase_step_index == Len(st.history) + 1
    IN  [phase_name |-> PHASE_SEQUENCE[((next_phase_step_index - 1) % Len(PHASE_SEQUENCE)) + 1],
         iteration_index |-> (next_phase_step_index + 1) \div 2,
         phase_step_index |-> next_phase_step_index]

\* Mutation: the iteration index is rounded down.
_next_phase_metadata_rounds_down(st) ==
    LET phase_records == phase_step_history(st.history)
        next_phase_step_index == Len(phase_records) + 1
    IN  [phase_name |-> PHASE_SEQUENCE[((next_phase_step_index - 1) % Len(PHASE_SEQUENCE)) + 1],
         iteration_index |-> next_phase_step_index \div 2,
         phase_step_index |-> next_phase_step_index]

\* Mutation: after an odd number of phase steps the reductive step is skipped, so that
\* the next step is an additive one.
_next_phase_metadata_starts_additive(st) ==
    LET phase_records == phase_step_history(st.history)
        next_phase_step_index ==
            IF Len(phase_records) % 2 = 1 THEN Len(phase_records) + 2
            ELSE Len(phase_records) + 1
    IN  [phase_name |-> PHASE_SEQUENCE[((next_phase_step_index - 1) % Len(PHASE_SEQUENCE)) + 1],
         iteration_index |-> (next_phase_step_index + 1) \div 2,
         phase_step_index |-> next_phase_step_index]

_next_phase_metadata(st) ==
    LET phase_records == phase_step_history(st.history)
        next_phase_step_index == Len(phase_records) + 1
    IN  [phase_name |-> PHASE_SEQUENCE[((next_phase_step_index - 1) % Len(PHASE_SEQUENCE)) + 1],
         iteration_index |-> (next_phase_step_index + 1) \div 2,
         phase_step_index |-> next_phase_step_index]

\* template_text.strip() is empty.
IsBlank(template_text) ==
    \A i \in 1..Len(template_text) :
        template_text[i].kind = "lit" /\ Strip(template_text[i].v) = ""

\* Mutation: `if not template_text`, only the empty template is refused.
_template_for_phase_accepts_whitespace(st, phase_name) ==
    LET template_text == IF phase_name = "additive" THEN st.additive_prompt_template
                         ELSE st.reductive_prompt_template
    IN  IF ~InPhaseSequence(phase_name)
        THEN [raised |-> ValueError("Unsupported phase name"), text |-> <<>>]
        ELSE IF template_text = <<>>
        THEN [raised |-> ValueError("prompt template is empty."), text |-> <<>>]
        ELSE [raised |-> NoError, text |-> template_text]

_template_for_phase(st, phase_name) ==
    LET template_text == IF phase_name = "additive" THEN st.additive_prompt_template
                         ELSE st.reductive_prompt_template
    IN  IF ~InPhaseSequence(phase_name)
        THEN [raised |-> ValueError("Unsupported phase name"), text |-> <<>>]
        ELSE IF IsBlank(template_text)
        THEN [raised |-> ValueError("prompt template is empty."), text |-> <<>>]
        ELSE [raised |-> NoError, text |-> template_text]

\* needle occurs in the upper-cased text of the piece, for the pieces that occur.
UpperContains(piece, needle) ==
    IF piece.kind = "ptok"
    THEN needle = "TEXT" /\ piece.v \in {"CONTEXT"}
    ELSE IF piece.kind = "tok"
    THEN \/ (needle = "{{FORMAT}}" /\ piece.v \in {"FORMAT", "format"})
         \/ (needle = "{{FORMAT_GUIDANCE}}" /\ piece.v \in {"FORMAT_GUIDANCE", "format_guidance"})
         \/ (needle = "TEXT" /\ piece.v \in {"CONTEXT"})
    ELSE needle = "JSON" /\ piece.v \in {"Return JSON.", "Return json."}

_template_mentions_format(template_text, output_format) ==
    LET normalized_format == Upper(Strip(output_format))
        Has(needle) == \E i \in 1..Len(template_text) : UpperContains(template_text[i], needle)
    IN  \/ Has("{{FORMAT}}")
        \/ Has("{{FORMAT_GUIDANCE}}")
        \/ (normalized_format # "" /\ Has(normalized_format))

_build_repair_prompt(output_text, output_format, validation_message) ==
    LET normalized_format == IF Strip(IF output_format = "" THEN "TEXT" ELSE output_format) = ""
                             THEN "TEXT"
                             ELSE Strip(IF output_format = "" THEN "TEXT" ELSE output_format)
        guidance == get_format_guidance(normalized_format)
    IN  <<Lit("The output below failed structural validation."),
          Lit("Target format: "), Lit(normalized_format),
          Lit("Validation error: ")>> \o [i \in 1..Len(validation_message) |-> Lit(validation_message[i])]
        \o <<Lit("Rewrite the output to preserve the same content intent while fixing structure."),
             Lit("Return only the repaired output."),
             Lit(guidance),
             Lit("Original output:"),
             Lit(output_text)>>

\* Mutation: the repaired text is recorded but never adopted.
_attempt_structural_repair_keeps_original(output_text, output_format, validation_message, reply, oid, t) ==
    LET repair_prompt == _build_repair_prompt(output_text, output_format, validation_message)
        repaired_validation == validate_for_format(reply.v, output_format)
    IN  IF reply.kind = "error"
        THEN [raised |-> LLMError(reply.v), repaired_output |-> "", repair_event |-> NoState]
        ELSE [raised |-> NoError,
              repaired_output |-> output_text,
              repair_event |-> make_repair_event(oid, resolve_model("budget"),
                                                 (IF repaired_validation.ok
                                                  THEN <<"Repair succeeded: ">>
                                                  ELSE <<"Repair attempted but output is still invalid: ">>)
                                                    \o repaired_validation.message,
                                                 repair_prompt, reply.v, t)]

\* Mutation: the repaired text is adopted whether or not it passes re-validation.
_attempt_structural_repair_adopts_always(output_text, output_format, validation_message, reply, oid, t) ==
    LET repair_prompt == _build_repair_prompt(output_text, output_format, validation_message)
        repaired_validation == validate_for_format(reply.v, output_format)
    IN  IF reply.kind = "error"
        THEN [raised |-> LLMError(reply.v), repaired_output |-> "", repair_event |-> NoState]
        ELSE [raised |-> NoError,
              repaired_output |-> reply.v,
              repair_event |-> make_repair_event(oid, resolve_model("budget"),
                                                 (IF repaired_validation.ok
                                                  THEN <<"Repair succeeded: ">>
                                                  ELSE <<"Repair attempted but output is still invalid: ">>)
                                                    \o repaired_validation.message,
                                                 repair_prompt, reply.v, t)]

_attempt_structural_repair(output_text, output_format, validation_message, reply, oid, t) ==
    LET repair_prompt == _build_repair_prompt(output_text, output_format, validation_message)
        repaired_validation == validate_for_format(reply.v, output_format)
    IN  IF reply.kind = "error"
        THEN [raised |-> LLMError(reply.v), repaired_output |-> "", repair_event |-> NoState]
        ELSE IF repaired_validation.ok
        THEN [raised |-> NoError,
              repaired_output |-> reply.v,
              repair_event |-> make_repair_event(oid, resolve_model("budget"),
                                                 <<"Repair succeeded: ">> \o repaired_validation.message,
                                                 repair_prompt, reply.v, t)]
        ELSE [raised |-> NoError,
              repaired_output |-> output_text,
              repair_event |-> make_repair_event(oid, resolve_model("budget"),
                                                 <<"Repair attempted but output is still invalid: ">>
                                                    \o repaired_validation.message,
                                                 repair_prompt, reply.v, t)]

\* The outcome of a call: the exception raised (or NoError), the value returned, the caller's
\* argument as it reads after the call, the callee's local next_state when the call ended,
\* and what the generate_text calls it made returned, in order.
Outcome(raised, ret, arg, local, replies) ==
    [raised |-> raised, ret |-> ret, arg |-> arg, local |-> local, replies |-> replies]

\* Mutation: a repair is attempted whenever the format is validated.
RepairNeeded_when_applicable(validation) == validation.applicable

\* `if validation.applicable and not validation.ok`.
RepairNeeded(validation) == validation.applicable /\ ~validation.ok

\* Mutation: a repaired text that is still invalid is sent to repair once more.
RepairPass_repairs_again(st, out, validation, repair_reply, t) ==
    LET repair == _attempt_structural_repair(out.replies[1].v, st.output_format,
                                             validation.message, repair_reply,
                                             FreshId(UsedIds(out.arg) \cup UsedIds(out.ret), 1), t)
        next_state == [out.ret EXCEPT !.current_output = repair.repaired_output,
                                      !.history = Append(@, repair.repair_event)]
        again == validate_for_format(repair_reply.v, st.output_format)
        second == _attempt_structural_repair(repair_reply.v, st.output_format,
                                             again.message, repair_reply,
                                             FreshId(UsedIds(out.arg) \cup UsedIds(next_state), 1),
                                             t + 1)
        next_state_again == [next_state EXCEPT !.current_output = second.repaired_output,
                                               !.history = Append(@, second.repair_event)]
    IN  IF ~RepairNeeded(validation) THEN out
        ELSE IF repair.raised # NoError
        THEN Outcome(repair.raised, NoState, out.arg, out.ret, out.replies \o <<repair_reply>>)
        ELSE IF again.ok
        THEN Outcome(NoError, next_state, Sync(out.arg, next_state), next_state,
                     out.replies \o <<repair_reply>>)
        ELSE Outcome(NoError, next_state_again, Sync(out.arg, next_state_again),
                     next_state_again, out.replies \o <<repair_reply, repair_reply>>)

\* The end of run_next_step: the single repair pass on the state that holds the phase step.
\* out is the outcome so far: out.ret is next_state, out.arg the caller's state.
RepairPass(st, out, validation, repair_reply, t) ==
    LET repair == _attempt_structural_repair(out.replies[1].v, st.output_format,
                                             validation.message, repair_reply,
                                             FreshId(UsedIds(out.arg) \cup UsedIds(out.ret), 1), t)
        next_state == [out.ret EXCEPT !.current_output = repair.repaired_output,
                                      !.history = Append(@, repair.repair_event)]
    IN  IF ~RepairNeeded(validation) THEN out
        ELSE IF repair.raised # NoError
        THEN Outcome(repair.raised, NoState, out.arg, out.ret, out.replies \o <<repair_reply>>)
        ELSE Outcome(NoError, next_state, Sync(out.arg, next_state), next_state,
                     out.replies \o <<repair_reply>>)

run_next_step(st, tier, config_ok, phase_reply, repair_reply, t) ==
    LET meta == _next_phase_metadata(st)
        template == _template_for_phase(st, meta.phase_name)
        context == build_context(st, meta.phase_name, meta.iteration_index)
        rendered == render_template(template.text, context)
        prompt_rendered ==
            IF ~_template_mentions_format(template.text, st.output_format)
            THEN <<Lit(get_format_guidance(st.output_format))>> \o rendered
            ELSE rendered
        validation == validate_for_format(phase_reply.v, st.output_format)
        copy == apply_run_options(st, NoOptions)
        next_state1 == [copy.ret EXCEPT !.current_output = phase_reply.v]
        arg1 == Sync(st, next_state1)
        phase_record ==
            IterationRecord(FreshId(UsedIds(st) \cup UsedIds(copy.ret), 1),
                            HISTORY_EVENT_PHASE_STEP, meta.iteration_index, meta.iteration_index,
                            meta.phase_step_index, meta.phase_name, resolve_model(tier),
                            IF validation.applicable THEN validation.message ELSE <<>>,
                            prompt_rendered, phase_reply.v, t)
        next_state2 == [next_state1 EXCEPT !.history = Append(@, phase_record)]
        arg2 == Sync(arg1, next_state2)
    IN  IF template.raised # NoError THEN Outcome(template.raised, NoState, st, NoState, <<>>)
        ELSE IF ~config_ok THEN Outcome(ConfigError, NoState, st, NoState, <<>>)
        ELSE IF phase_reply.kind = "error"
        THEN Outcome(LLMError(phase_reply.v), NoState, st, NoState, <<phase_reply>>)
        ELSE IF copy.raised # NoError
        THEN Outcome(copy.raised, NoState, st, NoState, <<phase_reply>>)
        ELSE RepairPass(st, Outcome(NoError, next_state2, arg2, next_state2, <<phase_reply>>),
                        validation, repair_reply, t + 1)

----------------------------------------------------------------------------
(* llm_client.py: LLMClient.generate_text, its retry loop and its request-shape loop *)

\* The exception classes of the openai package that generate_text imports, with the builtin
\* ones it handles: each class with the classes it is an instance of.
Bases(cls) ==
    CASE cls = "AuthenticationError" -> {"AuthenticationError", "APIStatusError", "Exception"}
      [] cls = "BadRequestError" -> {"BadRequestError", "APIStatusError", "Exception"}
      [] cls = "RateLimitError" -> {"RateLimitError", "APIStatusError", "Exception"}
      [] cls = "PermissionDeniedError" -> {"PermissionDeniedError", "APIStatusError", "Exception"}
      [] cls = "InternalServerError" -> {"InternalServerError", "APIStatusError", "Exception"}
      [] cls = "APIStatusError" -> {"APIStatusError", "Exception"}
      [] cls = "APITimeoutError" -> {"APITimeoutError", "APIConnectionError", "Exception"}
      [] cls = "APIConnectionError" -> {"APIConnectionError", "Exception"}
      [] OTHER -> {cls, "Exception"}

\* An exception raised by the backend call: its class, its HTTP status (0 when it has
\* none) and the parameter names its message mentions.
BackendError(cls, status, mentions) ==
    [kind |-> "error", cls |-> cls, status |-> status, mentions |-> mentions, category |-> ""]

\* The LLMError raised inside the attempt when no request shape was accepted.
RaisedLLMError(category) ==
    [kind |-> "error", cls |-> "LLMError", status |-> 0, mentions |-> {}, category |-> category]

IsInstance(e, cls) == cls \in Bases(e.cls)

\* What the messages of request-shape rejections mention: "temperature" stands for a message
\* with both "temperature" and "default (1)".
ShapeMessages ==
    {{}, {"max_completion_tokens"}, {"max_tokens"}, {"max_tokens", "max_completion_tokens"},
     {"temperature"}, {"web_search_options"}, {"max_completion_tokens", "temperature"}}

\* A completion returned by the backend; choices is empty or holds one message.
Completion(choices) == [kind |-> "completion", choices |-> choices]

\* What client.chat.completions.create can do with one request.
BackendOutcomes(request) ==
    {Completion(<<TEXT_OBJECT>>), Completion(<<>>)}
    \cup {BackendError("AuthenticationError", 401, {}),
          BackendError("RateLimitError", 429, {}),
          BackendError("PermissionDeniedError", 403, {}),
          BackendError("InternalServerError", 500, {}),
          BackendError("APIStatusError", 304, {}),
          BackendError("APIConnectionError", 0, {}),
          BackendError("APITimeoutError", 0, {}),
          BackendError("TypeError", 0, {})}
    \cup {BackendError("BadRequestError", 400, m) : m \in ShapeMessages}
    \cup (IF request.web_search_options
          THEN {BackendError("TypeError", 0, {"web_search_options"})}
          ELSE {})

\* len() of the prompt texts that occur.
Chars(text) ==
    CASE text = "" -> 0
      [] text = " " -> 1
      [] text = "Hi" -> 2
      [] text = "Be brief." -> 9
      [] OTHER -> 5

\* LLMClient._supports_chat_web_search.
_supports_chat_web_search(model) == model \in {"gpt-5-search-api", "gpt-4o-search-preview"}

\* LLMClient.resolve_model with a model_override ("" is None).
resolve_model_override(tier, model_override) ==
    IF model_override # "" THEN model_override ELSE resolve_model(tier)

\* The entry LLMClient._log_request writes.
_log_request(frame, outcome, error_category) ==
    [tier |-> frame.tier, model |-> frame.model,
     prompt_chars |-> Chars(frame.system_text) + Chars(frame.user_text),
     system_chars |-> Chars(frame.system_text), user_chars |-> Chars(frame.user_text),
     outcome |-> outcome,
     error_category |-> IF error_category = "" THEN "none" ELSE error_category]

\* LLMResponse(text=..., model_used=...).
LLMResponse(text, model_used) == [text |-> text, model_used |-> model_used]

NoResponse == [text |-> "", model_used |-> ""]

\* The iterations of the request-shape loop, `for _ in range(4)`.
SHAPE_ATTEMPTS == 4

\* The frame of generate_text.  sent: the requests of the current attempt; attempts: how
\* each finished attempt ended ("success", or the exception that ended it); sleeps: the
\* time.sleep calls, in tenths of a second; log: the entries written.
IdleClient ==
    [status |-> "idle", max_retries_arg |-> 0, max_retries |-> 0, tier |-> "", model |-> "",
     system_text |-> "", user_text |-> "", attempt |-> 0,
     token_field |-> "", include_temperature |-> FALSE, include_web_search_options |-> FALSE,
     sent |-> <<>>, requests |-> 0, attempts |-> <<>>, sleeps |-> <<>>, log |-> <<>>,
     raised |-> NoError, ret |-> NoResponse]

\* Mutation: the settings adapted in one attempt are carried into the next.
BeginAttempt_keeps_shape(frame, attempt) ==
    IF attempt = 0
    THEN [frame EXCEPT !.attempt = attempt,
                       !.token_field = "max_completion_tokens",
                       !.include_temperature = TRUE,
                       !.include_web_search_options = _supports_chat_web_search(frame.model),
                       !.sent = <<>>]
    ELSE [frame EXCEPT !.attempt = attempt, !.sent = <<>>]

\* The start of an attempt: the three request settings are set anew.
BeginAttempt(frame, attempt) ==
    [frame EXCEPT !.attempt = attempt,
                  !.token_field = "max_completion_tokens",
                  !.include_temperature = TRUE,
                  !.include_web_search_options = _supports_chat_web_search(frame.model),
                  !.sent = <<>>]

\* request_base as sent.
BuildRequest(frame) ==
    [model |-> frame.model,
     system_message |-> Strip(frame.system_text) # "",
     web_search_options |-> frame.include_web_search_options,
     temperature |-> frame.include_temperature,
     token_field |-> frame.token_field]

\* `except BadRequestError` and `except TypeError` inside the request-shape loop: the
\* settings after the handler, and whether the loop goes on (otherwise the exception is
\* raised again).
ShapeHandler(frame, e) ==
    LET flip_token ==
            IF frame.token_field = "max_completion_tokens"
               /\ "max_completion_tokens" \in e.mentions
            THEN "max_tokens"
            ELSE IF frame.token_field = "max_tokens"
                    /\ "max_tokens" \in e.mentions /\ "max_completion_tokens" \in e.mentions
            THEN "max_completion_tokens"
            ELSE frame.token_field
        drop_temperature == frame.include_temperature /\ "temperature" \in e.mentions
        drop_search == frame.include_web_search_options /\ "web_search_options" \in e.mentions
    IN  IF IsInstance(e, "BadRequestError")
        THEN [adapted |-> flip_token # frame.token_field \/ drop_temperature \/ drop_search,
              frame |-> [frame EXCEPT
                            !.token_field = flip_token,
                            !.include_temperature = IF drop_temperature THEN FALSE ELSE @,
                            !.include_web_search_options = IF drop_search THEN FALSE ELSE @]]
        ELSE IF IsInstance(e, "TypeError") /\ drop_search
        THEN [adapted |-> TRUE,
              frame |-> [frame EXCEPT !.include_web_search_options = FALSE]]
        ELSE [adapted |-> FALSE, frame |-> frame]

\* Mutation: `attempt <= self.max_retries`, one retry more than the budget.
HandleAttemptError_retries_past_budget(e, attempt, max_retries) ==
    IF IsInstance(e, "AuthenticationError") THEN [retry |-> FALSE, category |-> "auth"]
    ELSE IF IsInstance(e, "BadRequestError") THEN [retry |-> FALSE, category |-> "invalid_request"]
    ELSE IF IsInstance(e, "RateLimitError")
    THEN [retry |-> attempt <= max_retries, category |-> "rate_limit"]
    ELSE IF IsInstance(e, "APIConnectionError") \/ IsInstance(e, "APITimeoutError")
    THEN [retry |-> attempt <= max_retries, category |-> "network"]
    ELSE IF IsInstance(e, "APIStatusError")
    THEN IF e.status >= 500 THEN [retry |-> attempt <= max_retries, category |-> "server"]
         ELSE IF 400 <= e.status /\ e.status < 500
         THEN [retry |-> FALSE, category |-> "invalid_request"]
         ELSE [retry |-> FALSE, category |-> "unknown"]
    ELSE IF IsInstance(e, "LLMError") THEN [retry |-> FALSE, category |-> e.category]
    ELSE [retry |-> FALSE, category |-> "unknown"]

\* Mutation: every status error from 400 up is handled as a server error.
HandleAttemptError_retries_client_errors(e, attempt, max_retries) ==
    IF IsInstance(e, "AuthenticationError") THEN [retry |-> FALSE, category |-> "auth"]
    ELSE IF IsInstance(e, "BadRequestError") THEN [retry |-> FALSE, category |-> "invalid_request"]
    ELSE IF IsInstance(e, "RateLimitError")
    THEN [retry |-> attempt < max_retries, category |-> "rate_limit"]
    ELSE IF IsInstance(e, "APIConnectionError") \/ IsInstance(e, "APITimeoutError")
    THEN [retry |-> attempt < max_retries, category |-> "network"]
    ELSE IF IsInstance(e, "APIStatusError")
    THEN IF e.status >= 400 THEN [retry |-> attempt < max_retries, category |-> "server"]
         ELSE [retry |-> FALSE, category |-> "unknown"]
    ELSE IF IsInstance(e, "LLMError") THEN [retry |-> FALSE, category |-> e.category]
    ELSE [retry |-> FALSE, category |-> "unknown"]

\* Mutation: `except Exception` stands before `except LLMError`.
HandleAttemptError_catches_own_error(e, attempt, max_retries) ==
    IF IsInstance(e, "AuthenticationError") THEN [retry |-> FALSE, category |-> "auth"]
    ELSE IF IsInstance(e, "BadRequestError") THEN [retry |-> FALSE, category |-> "invalid_request"]
    ELSE IF IsInstance(e, "RateLimitError")
    THEN [retry |-> attempt < max_retries, category |-> "rate_limit"]
    ELSE IF IsInstance(e, "APIConnectionError") \/ IsInstance(e, "APITimeoutError")
    THEN [retry |-> attempt < max_retries, category |-> "network"]
    ELSE IF IsInstance(e, "APIStatusError")
    THEN IF e.status >= 500 THEN [retry |-> attempt < max_retries, category |-> "server"]
         ELSE IF 400 <= e.status /\ e.status < 500
         THEN [retry |-> FALSE, category |-> "invalid_request"]
         ELSE [retry |-> FALSE, category |-> "unknown"]
    ELSE [retry |-> FALSE, category |-> "unknown"]

\* The except clauses of the attempt, in their order: whether the attempt is retried
\* (sleep, then `continue`, nothing logged), and otherwise the category logged and raised.
HandleAttemptError(e, attempt, max_retries) ==
    IF IsInstance(e, "AuthenticationError") THEN [retry |-> FALSE, category |-> "auth"]
    ELSE IF IsInstance(e, "BadRequestError") THEN [retry |-> FALSE, category |-> "invalid_request"]
    ELSE IF IsInstance(e, "RateLimitError")
    THEN [retry |-> attempt < max_retries, category |-> "rate_limit"]
    ELSE IF IsInstance(e, "APIConnectionError") \/ IsInstance(e, "APITimeoutError")
    THEN [retry |-> attempt < max_retries, category |-> "network"]
    ELSE IF IsInstance(e, "APIStatusError")
    THEN IF e.status >= 500 THEN [retry |-> attempt < max_retries, category |-> "server"]
         ELSE IF 400 <= e.status /\ e.status < 500
         THEN [retry |-> FALSE, category |-> "invalid_request"]
         ELSE [retry |-> FALSE, category |-> "unknown"]
    ELSE IF IsInstance(e, "LLMError") THEN [retry |-> FALSE, category |-> e.category]
    ELSE [retry |-> FALSE, category |-> "unknown"]

\* The attempt ended with exception e: the frame after the except clause that takes it.
\* A retry sleeps 0.4 * (attempt + 1) seconds and starts the next attempt; when the loop
\* has no iteration left the function logs and raises "unknown" after the loop.
AttemptEnd(frame, e) ==
    LET h == HandleAttemptError(e, frame.attempt, frame.max_retries)
        ended == [frame EXCEPT !.attempts = Append(@, e)]
        slept == [ended EXCEPT !.sleeps = Append(@, 4 * (frame.attempt + 1))]
    IN  IF ~h.retry
        THEN [ended EXCEPT !.status = "raised",
                           !.log = Append(@, _log_request(frame, "error", h.category)),
                           !.raised = LLMError(h.category)]
        ELSE IF frame.attempt + 1 < frame.max_retries + 1
        THEN BeginAttempt(slept, frame.attempt + 1)
        ELSE [slept EXCEPT !.status = "raised",
                           !.log = Append(@, _log_request(frame, "error", "unknown")),
                           !.raised = LLMError("unknown")]

\* One iteration of the request-shape loop with what follows it, up to the next request
\* or the end of the call: the request is sent and the backend answers with outcome.
AfterRequest(frame, outcome) ==
    LET f1 == [frame EXCEPT !.sent = Append(@, BuildRequest(frame)), !.requests = @ + 1]
        shape == ShapeHandler(f1, outcome)
    IN  IF outcome.kind = "completion"
        THEN IF outcome.choices = <<>>
             THEN AttemptEnd(f1, BackendError("IndexError", 0, {}))
             ELSE [f1 EXCEPT !.status = "returned",
                             !.attempts = Append(@, outcome),
                             !.log = Append(@, _log_request(frame, "success", "")),
                             !.ret = LLMResponse(outcome.choices[1], frame.model)]
        ELSE IF ~shape.adapted THEN AttemptEnd(f1, outcome)
        ELSE IF Len(f1.sent) < SHAPE_ATTEMPTS THEN shape.frame
        ELSE AttemptEnd(shape.frame, RaisedLLMError("invalid_request"))

----------------------------------------------------------------------------
(* prompt_architect.py *)

PROMPT_ARCHITECT_TIER == "premium"

PromptArchitectError(message) == [type |-> "PromptArchitectError", detail |-> message]

\* A text of the project as the pieces TOKEN_PATTERN finds in it, after str.strip().
TextPieces(text) ==
    IF Strip(text) = "" THEN <<>>
    ELSE IF text = "Fill {{PHASE_NAME}} in" THEN <<Lit("Fill "), Tok("PHASE_NAME"), Lit(" in")>>
    ELSE <<Lit(text)>>

\* The texts the LLM returns for a template request, each line a piece.
RAW_GOOD == <<Lit("Act as a seasoned editor and improve the draft."), Tok("CURRENT_OUTPUT")>>

RAW_NO_DRAFT == <<Lit("Act as a seasoned editor and improve the draft.")>>

RAW_PADDED == <<Lit("Act as a seasoned editor and improve the draft."), PaddedTok("CURRENT_OUTPUT")>>

\* A line of three backquotes, followed by a language name where it opens a block.
FenceLine(language) == [kind |-> "fence", v |-> language]

RAW_FENCED == <<FenceLine("text"), Lit("Act as a seasoned editor and improve the draft."), Tok("CURRENT_OUTPUT"), FenceLine("")>>

RAW_KNOWN_TOKEN == <<Lit("Work toward:"), Tok("OUTCOME"), Tok("CURRENT_OUTPUT")>>

RAW_LEFTOVER == <<Tok("ITERATION_INDEX"), Tok("CURRENT_OUTPUT")>>

RAW_EMPTY == <<>>

RAW_LOW_QUALITY == <<Lit("Original content missing. Paste the content to rewrite.")>>

RAW_BRANCHING == <<Lit("Act as a seasoned editor and improve the draft."), Lit("If current_output is empty, write the first draft."), Tok("CURRENT_OUTPUT")>>

RawTexts == {RAW_GOOD, RAW_NO_DRAFT, RAW_PADDED, RAW_FENCED, RAW_KNOWN_TOKEN, RAW_LEFTOVER,
             RAW_EMPTY, RAW_LOW_QUALITY, RAW_BRANCHING}

\* What the generate_text call of a template request does.
ArchitectReplies ==
    [kind : {"text"}, v : RawTexts] \cup [kind : {"error"}, v : {"network", "auth"}]

\* The replies injected into the generate-prompts action of the UI.
ActionReplies ==
    {[kind |-> "text", v |-> RAW_GOOD], [kind |-> "error", v |-> "network"]}

_strip_code_fences(text) ==
    IF Len(text) >= 2 /\ text[1].kind = "fence" /\ text[Len(text)] = FenceLine("")
    THEN SubSeq(text, 2, Len(text) - 1)
    ELSE text

\* A marker of LOW_QUALITY_MARKERS occurs in the lower-cased text.
_contains_low_quality_markers(text) ==
    \E i \in 1..Len(text) :
        /\ text[i].kind = "lit"
        /\ text[i].v \in {"Original content missing. Paste the content to rewrite.",
                          "Input missing."}

\* The line holds one of the blocked markers.
IsBranchingLine(piece) ==
    /\ piece.kind = "lit"
    /\ piece.v \in {"If current_output is empty, write the first draft.",
                    "If current_output is non-empty, revise it."}

KeptLine(piece) == ~IsBranchingLine(piece)

_remove_empty_branching_lines(text) == SelectSeq(text, KeptLine)

_phase_rules_for(st, phase_name) ==
    IF phase_name = "additive" THEN TextPieces(st.additive_phase_allowed_changes)
    ELSE TextPieces(st.reductive_phase_allowed_changes)

\* re.sub with TOKEN_PATTERN: {{CURRENT_OUTPUT}} stays as written, a token with a
\* replacement becomes the text of the project, any other token stays as written.
RECURSIVE _replace_known_tokens(_, _, _, _)
_replace_known_tokens(template_text, st, phase_name, format_target) ==
    IF template_text = <<>> THEN <<>>
    ELSE LET piece == Head(template_text)
             rest == _replace_known_tokens(Tail(template_text), st, phase_name, format_target)
         IN  IF piece.kind \notin {"tok", "ptok"} \/ piece.v = "CURRENT_OUTPUT"
             THEN <<piece>> \o rest
             ELSE CASE piece.v = "OUTCOME" -> TextPieces(st.outcome) \o rest
                    [] piece.v = "REQUIREMENTS" -> TextPieces(st.requirements_constraints) \o rest
                    [] piece.v = "SPECIAL_RESOURCES" -> TextPieces(st.special_resources) \o rest
                    [] piece.v = "FORMAT" -> <<Lit(format_target)>> \o rest
                    [] piece.v = "FORMAT_GUIDANCE" -> <<Lit(get_format_guidance(format_target))>> \o rest
                    [] piece.v = "PHASE_RULES" -> _phase_rules_for(st, phase_name) \o rest
                    [] piece.v = "PHASE_NAME" -> <<Lit(phase_name)>> \o rest
                    [] OTHER -> <<piece>> \o rest

\* The deterministic template: fixed lines around the texts of the project.
_build_fallback_template(st, phase_name, format_target) ==
    LET outcome == TextPieces(st.outcome)
        requirements == TextPieces(st.requirements_constraints)
        resources == TextPieces(st.special_resources)
        phase_rules == _phase_rules_for(st, phase_name)
        \* The marker named in the additive instruction is a constant of prompt_templates.py,
        \* plain text; it stands here under its name.
        phase_instruction ==
            IF phase_name = "additive"
            THEN "Make two to four of the most significant improvements. The literal marker 'EMPTY_CURRENT_OUTPUT_PLACEHOLDER' means there is no prior draft yet."
            ELSE "Make two to four of the most significant improvements by removing, rebalancing, or simplifying. Avoid net-new additions unless a constraint requires them. Assume this phase operates on an existing additive draft."
    IN  <<Lit("Before writing, infer and adopt the ideal expert role profile for this objective."),
          Lit("Choose the disciplines and depth that best fit the task."),
          Lit("Objective:")>>
        \o (IF outcome = <<>> THEN <<Lit("(No outcome provided.)")>> ELSE outcome)
        \o (IF requirements # <<>> THEN <<Lit("Requirements and constraints:")>> \o requirements
            ELSE <<>>)
        \o (IF resources # <<>>
            THEN <<Lit("Special resources that may help (not mandatory):")>> \o resources
            ELSE <<>>)
        \o <<Lit("Target output format: "), Lit(format_target),
             Lit(get_format_guidance(format_target))>>
        \o (IF phase_rules # <<>> THEN <<Lit("Allowed changes for this phase:")>> \o phase_rules
            ELSE <<>>)
        \o <<Lit(phase_instruction),
             Lit("Current draft:"),
             Tok("CURRENT_OUTPUT"),
             Lit("Return only the final output in the target format and no explanatory text.")>>

\* The token names TOKEN_PATTERN finds in a text.
FoundTokens(text) == {text[i].v : i \in {j \in 1..Len(text) : text[j].kind \in {"tok", "ptok"}}}

_finalize_generated_template(raw_text, st, phase_name, format_target) ==
    LET cleaned == _remove_empty_branching_lines(
                       _replace_known_tokens(_strip_code_fences(raw_text), st, phase_name,
                                             format_target))
        remaining_tokens == FoundTokens(cleaned) \ {"CURRENT_OUTPUT"}
    IN  IF IsBlank(cleaned) \/ _contains_low_quality_markers(cleaned)
        THEN _build_fallback_template(st, phase_name, format_target)
        ELSE IF remaining_tokens # {}
        THEN _build_fallback_template(st, phase_name, format_target)
        ELSE IF \A i \in 1..Len(cleaned) : cleaned[i] # Tok("CURRENT_OUTPUT")
        THEN cleaned \o <<Lit("Current draft:"), Tok("CURRENT_OUTPUT")>>
        ELSE cleaned

\* One generate_text call as the architect makes it.
ArchitectCall(phase_name, reply) ==
    [phase_name |-> phase_name, tier |-> PROMPT_ARCHITECT_TIER, reply |-> reply]

\* Mutation: no `except LLMError`, the error of the client leaves the function.
_generate_phase_template_with_fallback_propagates(st, phase_name, format_target, reply) ==
    IF reply.kind = "error"
    THEN [raised |-> LLMError(reply.v), template |-> <<>>, note |-> <<>>,
          calls |-> <<ArchitectCall(phase_name, reply)>>]
    ELSE [raised |-> NoError,
          template |-> _finalize_generated_template(reply.v, st, phase_name, format_target),
          note |-> <<phase_name, ": generated">>,
          calls |-> <<ArchitectCall(phase_name, reply)>>]

\* _generate_phase_template inside its try: one generate_text call at the tier of the architect,
\* then the finalization; an LLMError gives the fallback template and a note of its category.
_generate_phase_template_with_fallback(st, phase_name, format_target, reply) ==
    IF reply.kind = "error"
    THEN [raised |-> NoError,
          template |-> _build_fallback_template(st, phase_name, format_target),
          note |-> <<phase_name, ": fallback (", reply.v, ")">>,
          calls |-> <<ArchitectCall(phase_name, reply)>>]
    ELSE [raised |-> NoError,
          template |-> _finalize_generated_template(reply.v, st, phase_name, format_target),
          note |-> <<phase_name, ": generated">>,
          calls |-> <<ArchitectCall(phase_name, reply)>>]

\* `str(state.output_format or "Markdown")`.
FormatTarget(st) == IF st.output_format = "" THEN "Markdown" ELSE st.output_format

\* What a call of the architect gives: the exception raised (or NoError), the templates and
\* the notes of the phases generated, and the generate_text calls made, in order.
ArchitectResult(raised, templates, notes, calls) ==
    [raised |-> raised, templates |-> templates, notes |-> notes, calls |-> calls]

NoTemplates == [additive |-> <<>>, reductive |-> <<>>]

generate_template_for_phase(st, phase_name, config_ok, reply) ==
    LET Checked(r) ==
            IF r.raised # NoError THEN ArchitectResult(r.raised, NoTemplates, <<>>, r.calls)
            ELSE IF IsBlank(r.template)
            THEN ArchitectResult(PromptArchitectError("Prompt Architect returned an empty template."),
                                 NoTemplates, <<>>, r.calls)
            ELSE ArchitectResult(NoError, [NoTemplates EXCEPT ![phase_name] = r.template],
                                 r.note, r.calls)
    IN  IF phase_name \notin {"additive", "reductive"}
        THEN ArchitectResult(PromptArchitectError("Unsupported phase name"), NoTemplates, <<>>, <<>>)
        ELSE IF ~config_ok THEN ArchitectResult(ConfigError, NoTemplates, <<>>, <<>>)
        ELSE Checked(_generate_phase_template_with_fallback(st, phase_name, FormatTarget(st),
                                                            reply))

generate_templates(st, config_ok, additive_reply, reductive_reply) ==
    LET Checked(a, r) ==
            IF a.raised # NoError THEN ArchitectResult(a.raised, NoTemplates, <<>>, a.calls)
            ELSE IF r.raised # NoError
            THEN ArchitectResult(r.raised, NoTemplates, <<>>, a.calls \o r.calls)
            ELSE IF IsBlank(a.template) \/ IsBlank(r.template)
            THEN ArchitectResult(PromptArchitectError("Prompt Architect returned empty prompt templates."),
                                 NoTemplates, <<>>, a.calls \o r.calls)
            ELSE ArchitectResult(NoError, [additive |-> a.template, reductive |-> r.template],
                                 a.note \o <<"; ">> \o r.note, a.calls \o r.calls)
    IN  IF ~config_ok THEN ArchitectResult(ConfigError, NoTemplates, <<>>, <<>>)
        ELSE Checked(_generate_phase_template_with_fallback(st, "additive", FormatTarget(st),
                                                            additive_reply),
                     _generate_phase_template_with_fallback(st, "reductive", FormatTarget(st),
                                                            reductive_reply))

\* Mutation: every phase is generated, whatever the field holds.
NeedsGeneration_always(overwrite_existing, existing_template) == TRUE

\* `needs_additive = overwrite_existing or not existing_additive.strip()`, and likewise for
\* the reductive template.
NeedsGeneration(overwrite_existing, existing_template) ==
    overwrite_existing \/ IsBlank(existing_template)

apply_generated_templates(existing_additive, existing_reductive, generated_additive, generated_reductive, overwrite_existing) ==
    [next_additive |-> IF overwrite_existing \/ IsBlank(existing_additive)
                       THEN generated_additive ELSE existing_additive,
     next_reductive |-> IF overwrite_existing \/ IsBlank(existing_reductive)
                        THEN generated_reductive ELSE existing_reductive]

\* The generation part of generate_prompts_action: generate_templates when both phases are
\* needed, generate_template_for_phase for the one that is needed otherwise, the template
\* of the other phase and a "preserved" note taken as they are.
generate_prompts(st, overwrite_existing, config_ok, additive_reply, reductive_reply) ==
    LET existing_additive == st.additive_prompt_template
        existing_reductive == st.reductive_prompt_template
        needs_additive == NeedsGeneration(overwrite_existing, existing_additive)
        needs_reductive == NeedsGeneration(overwrite_existing, existing_reductive)
        Joined(a, r) ==
            IF a.raised # NoError THEN a
            ELSE IF r.raised # NoError
            THEN ArchitectResult(r.raised, NoTemplates, <<>>, a.calls \o r.calls)
            ELSE ArchitectResult(NoError,
                                 [additive |-> a.templates.additive,
                                  reductive |-> r.templates.reductive],
                                 a.notes \o <<"; ">> \o r.notes, a.calls \o r.calls)
    IN  IF ~needs_additive /\ ~needs_reductive
        THEN ArchitectResult(NoError, NoTemplates, <<>>, <<>>)
        ELSE IF needs_additive /\ needs_reductive
        THEN generate_templates(st, config_ok, additive_reply, reductive_reply)
        ELSE Joined(IF needs_additive
                    THEN generate_template_for_phase(st, "additive", config_ok, additive_reply)
                    ELSE ArchitectResult(NoError,
                                         [NoTemplates EXCEPT !.additive = existing_additive],
                                         <<"additive: preserved">>, <<>>),
                    IF needs_reductive
                    THEN generate_template_for_phase(st, "reductive", config_ok, reductive_reply)
                    ELSE ArchitectResult(NoError,
                                         [NoTemplates EXCEPT !.reductive = existing_reductive],
                                         <<"reductive: preserved">>, <<>>))

\* The last call of the architect: what was called, with which arguments, and its result.
ArchitectRecord(op, phase_name, overwrite_existing, config_ok, arg_before, result) ==
    [op |-> op, phase_name |-> phase_name, overwrite_existing |-> overwrite_existing,
     config_ok |-> config_ok, arg_before |-> arg_before, raised |-> result.raised,
     templates |-> result.templates, notes |-> result.notes, calls |-> result.calls]

IdleArchitect ==
    ArchitectRecord("none", "", FALSE, TRUE, NoState,
                    ArchitectResult(NoError, NoTemplates, <<>>, <<>>))

----------------------------------------------------------------------------
(* history_restore.py *)

\* Mutation: the snapshot restored is that of the newest record.
restore_history_snapshot_selects_last(st, record_index, t) ==
    LET used == UsedIds(st)
        n == Len(st.history)
        next_history == [i \in 1..n |-> CopyRecord(st.history[i], FreshId(used, 1 + i))]
        selected == next_history[n]
        restored_output == selected.output_snapshot
        restore_note == <<"Restored from history entry ", ToString(record_index + 1), ".">>
    IN  IF record_index < 0 \/ record_index >= n
        THEN [raised |-> IndexError("record_index is out of range."),
              restored_output |-> "", hid |-> 0, history |-> <<>>]
        ELSE [raised |-> NoError,
              restored_output |-> restored_output,
              hid |-> FreshId(used, 1),
              history |-> Append(next_history,
                                 make_restore_event(FreshId(used, n + 2), restore_note,
                                                    restored_output, t))]

\* Mutation: only `record_index >= len(history_records)` is refused; a negative index counts
\* from the end of the list, as list indexing does.
restore_history_snapshot_indexes_from_end(st, record_index, t) ==
    LET used == UsedIds(st)
        n == Len(st.history)
        next_history == [i \in 1..n |-> CopyRecord(st.history[i], FreshId(used, 1 + i))]
        selected == next_history[IF record_index < 0 THEN n + record_index + 1
                                 ELSE record_index + 1]
        restored_output == selected.output_snapshot
        restore_note == <<"Restored from history entry ", ToString(record_index + 1), ".">>
    IN  IF record_index >= n \/ record_index < -n
        THEN [raised |-> IndexError("record_index is out of range."),
              restored_output |-> "", hid |-> 0, history |-> <<>>]
        ELSE [raised |-> NoError,
              restored_output |-> restored_output,
              hid |-> FreshId(used, 1),
              history |-> Append(next_history,
                                 make_restore_event(FreshId(used, n + 2), restore_note,
                                                    restored_output, t))]

\* The caller's state stands for the list history_records; hid and history of the result
\* are the list returned.
restore_history_snapshot(st, record_index, t) ==
    LET used == UsedIds(st)
        n == Len(st.history)
        next_history == [i \in 1..n |-> CopyRecord(st.history[i], FreshId(used, 1 + i))]
        selected == next_history[record_index + 1]
        restored_output == selected.output_snapshot
        restore_note == <<"Restored from history entry ", ToString(record_index + 1), ".">>
    IN  IF record_index < 0 \/ record_index >= n
        THEN [raised |-> IndexError("record_index is out of range."),
              restored_output |-> "", hid |-> 0, history |-> <<>>]
        ELSE [raised |-> NoError,
              restored_output |-> restored_output,
              hid |-> FreshId(used, 1),
              history |-> Append(next_history,
                                 make_restore_event(FreshId(used, n + 2), restore_note,
                                                    restored_output, t))]

----------------------------------------------------------------------------
(* The caller: one project, and the calls it makes on the engine *)

TEMPLATE_EMPTY == <<>>

TEMPLATE_BLANK == <<Lit("  ")>>

TEMPLATE_STEP == <<Tok("CURRENT_OUTPUT"), Lit("Write the next draft.")>>

TEMPLATE_JSON == <<Tok("CURRENT_OUTPUT"), Lit("Return JSON.")>>

TEMPLATE_GUIDED == <<Tok("FORMAT_GUIDANCE"), Tok("CURRENT_OUTPUT"), Lit("Write the next draft.")>>

TEMPLATE_GUIDED_PADDED == <<PaddedTok("FORMAT_GUIDANCE"), Tok("CURRENT_OUTPUT")>>

\* The projects explored: output_format, iterations, additive_prompt_template,
\* reductive_prompt_template, the tier the caller passes to the engine ("" when it passes
\* none), and the tiers configured for the additive and the reductive phase.
Projects == {<<"JSON", 1, TEMPLATE_STEP, TEMPLATE_JSON, "", "premium", "budget">>,
             <<"Markdown", 1, TEMPLATE_STEP, TEMPLATE_GUIDED_PADDED, "premium", "budget", "budget">>,
             <<"Python", 1, TEMPLATE_GUIDED, TEMPLATE_EMPTY, "budget", "budget", "premium">>,
             <<"JSON", 0, TEMPLATE_STEP, TEMPLATE_JSON, "premium", "premium", "premium">>,
             <<"Markdown", 1, TEMPLATE_BLANK, TEMPLATE_STEP, "", "budget", "budget">>}

\* `tier: ModelTier = "budget"`: the tier run_next_step and run_iterations work with when
\* the caller passes tier_argument.
TierParameter(tier_argument) == IF tier_argument = "" THEN "budget" ELSE tier_argument

\* A record of the most recent call of run_next_step, apply_run_options or
\* restore_history_snapshot: the argument before and after, and the outcome.
Call(op, arg_before, out) ==
    [op |-> op, arg_before |-> arg_before, arg |-> out.arg, ret |-> out.ret,
     raised |-> out.raised, local |-> out.local, replies |-> out.replies,
     requests |-> Len(out.replies), record_index |-> -1, options |-> NoOptions,
     planned |-> <<>>]

NoCall == Call("none", NoState, Outcome(NoError, NoState, NoState, NoState, <<>>))

\* The call only computed a value for the caller to look at.
IsQuery(call) == call.op \in {"apply_run_options", "plan_steps"}

\* The frame of run_iterations.
IdleRun ==
    [status |-> "idle", arg_before |-> NoState, arg |-> NoState, current_state |-> NoState,
     target_iterations |-> 0, steps_target |-> 0, steps_completed |-> 0, cancelled |-> FALSE,
     has_stop |-> FALSE, evals |-> 0, first_true |-> 0, requests |-> 0, raised |-> NoError,
     in_flight |-> FALSE, stop_step |-> 0]

\* Mutation: one step per iteration.
StepsTarget_one_per_iteration(target_iterations) == target_iterations

\* `steps_target = target_iterations * len(PHASE_SEQUENCE)`.
StepsTarget(target_iterations) == target_iterations * Len(PHASE_SEQUENCE)

\* Mutation: what the predicate returns is ignored.
StopCheck_ignored(frame, flag) == FALSE

\* Mutation: the predicate is consulted only once a step has completed.
StopCheck_skips_first(frame, flag) == frame.has_stop /\ flag /\ frame.steps_completed > 0

\* `should_stop is not None and should_stop()`, where should_stop reads the stop flag.
StopCheck(frame, flag) == frame.has_stop /\ flag

\* main.py, build_ui: the flags and the run coroutine of the page. is_run_active is the
\* flag of the source; task and position say which run coroutine exists and whether it
\* waits for run_next_step on the worker thread ("in_flight") or has yielded to the event
\* loop between two steps ("yielded"); in_flight counts the run_next_step calls on worker
\* threads; current_state is the state the coroutine holds; status and notified are the
\* status label and the last notification; appended holds created_at of the restore
\* events that restore_history_entry_action has appended.
IdleUI ==
    [is_run_active |-> FALSE, task |-> "none", position |-> "idle", in_flight |-> 0,
     current_state |-> NoState, steps_completed |-> 0, total_phase_steps |-> 0,
     status |-> "Idle", notified |-> "", appended |-> {}]

\* Mutation: a request is never turned away.
RunIsActive_never(u) == FALSE

\* `if is_run_active:` at the head of run_next_step_action and run_iterations_action.
RunIsActive(u) == u.is_run_active

\* state_from_ui(): a ProjectState built from the values of the inputs, an empty iteration
\* count read as 1 and an empty format as Markdown, with a copy of every record of
\* history_records. The title and tier keywords are left out, ProjectState having no such
\* fields. No handler changes a record in place, so the identities of the copies play no
\* part and are taken over.
state_from_ui(inputs) ==
    [inputs EXCEPT !.iterations = IF @ = 0 THEN 1 ELSE @,
                   !.output_format = IF @ = "" THEN "Markdown" ELSE @,
                   !.history = [i \in 1..Len(@) |-> PostInit(@[i])]]

\* apply_state(state): every input takes the value of the state, and history_records is
\* cleared and refilled with state.history.
apply_state(inputs, st) ==
    Canon([st EXCEPT !.sid = inputs.sid, !.hid = inputs.hid])

\* Records one run_next_step can append for this project.
StepRecords(st) == IF validate_for_format("", st.output_format).applicable THEN 2 ELSE 1

Init ==
    /\ \E p \in Projects :
          /\ state = ProjectState(1, 2, 1, "Test", "Return OK only.", "", p[2], p[1],
                               "Add detail.", "Remove detail.", p[3], p[4], "", <<>>)
          /\ caller_tier = p[5]
          /\ phase_model_tier = [additive |-> p[6], reductive |-> p[7]]
    /\ now = 1
    /\ last = NoCall
    /\ run = IdleRun
    /\ stop_requested = FALSE
    /\ client = IdleClient
    /\ architect = IdleArchitect
    /\ applied = NoApplication
    /\ ui = IdleUI

\* run_next_step(state, tier=tier); the caller keeps the returned state.
RunNextStep ==
    /\ run.status # "running"
    /\ ~IsQuery(last)
    /\ Len(state.history) + StepRecords(state) <= MaxHistory
    /\ \E config_ok \in BOOLEAN, phase_reply \in PhaseReplies :
       \E repair_reply \in
             (IF /\ phase_reply.kind = "text"
                 /\ validate_for_format(phase_reply.v, state.output_format).applicable
                 /\ ~validate_for_format(phase_reply.v, state.output_format).ok
              THEN RepairReplies ELSE {NoReply}) :
          LET out == run_next_step(state, TierParameter(caller_tier), config_ok, phase_reply,
                                    repair_reply, now)
          IN  /\ last' = Call("run_next_step", state, out)
              /\ state' = IF out.raised = NoError THEN Canon(out.ret) ELSE out.arg
              /\ now' = IF out.raised = NoError
                        THEN now + Len(out.ret.history) - Len(state.history)
                        ELSE now
    /\ run' = IdleRun
    /\ UNCHANGED <<caller_tier, phase_model_tier, stop_requested, client, architect, applied, ui>>

\* apply_run_options(state, options); the caller inspects the copy and drops it.
ApplyRunOptions ==
    /\ run.status # "running"
    /\ ~IsQuery(last)
    /\ \E options \in {NoOptions} \cup {RunOptions(n) : n \in 0..MaxIterations} :
          LET r == apply_run_options(state, options)
          IN  last' = Call("apply_run_options", state,
                           Outcome(r.raised, r.ret, state, NoState, <<>>))
    /\ run' = IdleRun
    /\ UNCHANGED <<state, caller_tier, phase_model_tier, now, stop_requested, client, architect, applied, ui>>

\* plan_steps(state, options); the caller looks at the plan and drops it.
PlanSteps ==
    /\ run.status # "running"
    /\ ~IsQuery(last)
    /\ \E options \in {NoOptions} \cup {RunOptions(n) : n \in 0..MaxIterations} :
          LET r == plan_steps(state, options, now)
          IN  last' = [Call("plan_steps", state,
                            Outcome(r.raised, NoState, r.arg, NoState, <<>>))
                       EXCEPT !.options = options, !.planned = r.steps]
    /\ run' = IdleRun
    /\ UNCHANGED <<state, caller_tier, phase_model_tier, now, stop_requested, client, architect, applied, ui>>

\* The caller has looked at the copy or the plan and goes on with its own state.
DropResult ==
    /\ IsQuery(last)
    /\ last' = NoCall
    /\ UNCHANGED <<state, caller_tier, phase_model_tier, now, run, stop_requested, client, architect, applied, ui>>

\* restore_history_snapshot(state.history, record_index=i); on success the caller takes the
\* restored output as current_output and the returned list as its history.
Restore ==
    /\ run.status # "running"
    /\ ~IsQuery(last)
    /\ Len(state.history) + 1 <= MaxHistory
    /\ \E record_index \in -1..Len(state.history) :
          LET r == restore_history_snapshot(state, record_index, now)
              restored == [state EXCEPT !.current_output = r.restored_output,
                                        !.hid = r.hid,
                                        !.history = r.history]
              arg == IF r.raised = NoError THEN Sync(state, [restored EXCEPT !.sid = 0])
                     ELSE state
          IN  /\ last' = [Call("restore_history_snapshot", state,
                                   Outcome(r.raised,
                                           IF r.raised = NoError THEN restored ELSE NoState,
                                           arg, NoState, <<>>))
                              EXCEPT !.record_index = record_index]
              /\ state' = IF r.raised = NoError THEN Canon(restored) ELSE state
              /\ now' = IF r.raised = NoError THEN now + 1 ELSE now
    /\ run' = IdleRun
    /\ UNCHANGED <<caller_tier, phase_model_tier, stop_requested, client, architect, applied, ui>>

\* The generate-prompts action of the UI appends a prompt_architect event to the history.
GeneratePrompts ==
    /\ run.status # "running"
    /\ ~IsQuery(last)
    /\ Len(state.history) + 1 <= MaxHistory
    /\ state' = Canon([state EXCEPT !.history =
                    Append(@, make_prompt_architect_event(
                                  FreshId(UsedIds(state), 1), resolve_model("premium"),
                                  <<"additive: generated", "; ", "reductive: generated">>, now))])
    /\ now' = now + 1
    /\ last' = NoCall
    /\ run' = IdleRun
    /\ UNCHANGED <<caller_tier, phase_model_tier, stop_requested, client, architect, applied, ui>>

\* run_iterations(state, iterations=..., tier=..., should_stop=...) up to its loop.
RunIterationsStart ==
    /\ run.status # "running"
    /\ ~IsQuery(last)
    /\ \E iterations \in {NoOptions} \cup {RunOptions(n) : n \in 0..MaxIterations},
          has_stop \in BOOLEAN :
          LET target_iterations == IF iterations.present THEN iterations.v ELSE state.iterations
              copy == apply_run_options(state, NoOptions)
              current_state == [copy.ret EXCEPT !.iterations = target_iterations]
              frame == [IdleRun EXCEPT !.arg_before = state, !.arg = state,
                                       !.target_iterations = target_iterations,
                                       !.has_stop = has_stop]
          IN  /\ Len(state.history) + StepRecords(state) * 2 * target_iterations <= MaxHistory
              /\ run' = IF target_iterations < 1
                        THEN [frame EXCEPT !.status = "raised",
                                           !.raised = ValueError("iterations must be >= 1")]
                        ELSE IF copy.raised # NoError
                        THEN [frame EXCEPT !.status = "raised", !.raised = copy.raised]
                        ELSE [frame EXCEPT !.status = "running",
                                           !.steps_target = StepsTarget(target_iterations),
                                           !.current_state = current_state,
                                           !.arg = Sync(state, current_state)]
    /\ stop_requested' = FALSE
    /\ last' = NoCall
    /\ UNCHANGED <<state, caller_tier, phase_model_tier, now, client, architect, applied, ui>>

\* The number of the evaluation at which should_stop first returned true, 0 while it has not.
FirstTrue(frame, flag) ==
    IF frame.has_stop /\ flag /\ frame.first_true = 0 THEN frame.evals + 1 ELSE frame.first_true

\* `return RunIterationsResult(state=current_state, steps_completed=steps_completed,
\* cancelled=True)`; the caller keeps the returned state.
CancelReturn ==
    /\ run' = [run EXCEPT !.status = "returned", !.cancelled = TRUE, !.evals = @ + 1,
                          !.in_flight = FALSE,
                          !.first_true = FirstTrue(run, stop_requested)]
    /\ state' = Canon(run.current_state)
    /\ now' = now + Len(run.current_state.history) - Len(run.arg_before.history)
    /\ UNCHANGED last

\* The head of one turn of the loop of run_iterations: the cancellation check.  When it
\* does not cancel, run_next_step is entered and the step is in flight.
RunIterationsCheck ==
    /\ run.status = "running"
    /\ ~run.in_flight
    /\ IF StopCheck(run, stop_requested)
       THEN CancelReturn
       ELSE /\ run' = [run EXCEPT !.in_flight = TRUE,
                                  !.evals = IF run.has_stop THEN @ + 1 ELSE @,
                                  !.first_true = FirstTrue(run, stop_requested)]
            /\ UNCHANGED <<state, now, last>>
    /\ UNCHANGED <<caller_tier, phase_model_tier, stop_requested, client, architect, applied, ui>>

\* Mutation: a step that raises ends the run with the result of the steps before it.
StepInFlight_returns_partial ==
    \E config_ok \in BOOLEAN, phase_reply \in PhaseReplies :
    \E repair_reply \in
          (IF /\ phase_reply.kind = "text"
              /\ Upper(Strip(state.output_format)) \in {"JSON", "PYTHON"}
           THEN RepairReplies ELSE {NoReply}) :
       LET out == run_next_step(run.current_state, TierParameter(caller_tier), config_ok,
                                phase_reply, repair_reply,
                                now + Len(run.current_state.history)
                                    - Len(run.arg_before.history))
           requests == run.requests + Len(out.replies)
           arg == Sync(Sync(run.arg, out.arg), IF out.raised = NoError THEN out.ret ELSE out.arg)
       IN  /\ last' = Call("run_next_step", run.current_state, out)
           /\ IF out.raised # NoError
              THEN /\ run' = [run EXCEPT !.status = "returned",
                                         !.requests = requests, !.in_flight = FALSE,
                                         !.arg = arg]
                   /\ state' = Canon(run.current_state)
                   /\ now' = now + Len(run.current_state.history)
                                 - Len(run.arg_before.history)
              ELSE IF run.steps_completed + 1 = run.steps_target
                   THEN /\ run' = [run EXCEPT !.status = "returned",
                                              !.steps_completed = @ + 1,
                                              !.requests = requests, !.in_flight = FALSE,
                                              !.arg = arg, !.current_state = out.ret]
                        /\ state' = Canon(out.ret)
                        /\ now' = now + Len(out.ret.history) - Len(run.arg_before.history)
                   ELSE /\ run' = [run EXCEPT !.steps_completed = @ + 1,
                                              !.requests = requests, !.in_flight = FALSE,
                                              !.arg = arg, !.current_state = out.ret]
                        /\ UNCHANGED <<state, now>>

\* `current_state = run_next_step(current_state, tier=tier)` and `steps_completed += 1`.
\* After the last step the function returns; the caller keeps the returned state.
StepInFlight ==
    \E config_ok \in BOOLEAN, phase_reply \in PhaseReplies :
    \E repair_reply \in
          (IF /\ phase_reply.kind = "text"
              /\ Upper(Strip(state.output_format)) \in {"JSON", "PYTHON"}
           THEN RepairReplies ELSE {NoReply}) :
       LET out == run_next_step(run.current_state, TierParameter(caller_tier), config_ok,
                                phase_reply, repair_reply,
                                now + Len(run.current_state.history)
                                    - Len(run.arg_before.history))
           requests == run.requests + Len(out.replies)
           arg == Sync(Sync(run.arg, out.arg), IF out.raised = NoError THEN out.ret ELSE out.arg)
       IN  /\ last' = Call("run_next_step", run.current_state, out)
           /\ IF out.raised # NoError
              THEN /\ run' = [run EXCEPT !.status = "raised", !.raised = out.raised,
                                         !.requests = requests, !.in_flight = FALSE,
                                         !.arg = arg, !.current_state = NoState]
                   /\ UNCHANGED <<state, now>>
              ELSE IF run.steps_completed + 1 = run.steps_target
                   THEN /\ run' = [run EXCEPT !.status = "returned",
                                              !.steps_completed = @ + 1,
                                              !.requests = requests, !.in_flight = FALSE,
                                              !.arg = arg, !.current_state = out.ret]
                        /\ state' = Canon(out.ret)
                        /\ now' = now + Len(out.ret.history) - Len(run.arg_before.history)
                   ELSE /\ run' = [run EXCEPT !.steps_completed = @ + 1,
                                              !.requests = requests, !.in_flight = FALSE,
                                              !.arg = arg, !.current_state = out.ret]
                        /\ UNCHANGED <<state, now>>

\* Mutation: the stop predicate is consulted again when the LLM call of the step returns,
\* and the step is abandoned when it is true.
RunIterationsLoop_interruptible ==
    /\ run.status = "running"
    /\ run.in_flight
    /\ IF StopCheck(run, stop_requested) THEN CancelReturn ELSE StepInFlight
    /\ UNCHANGED <<caller_tier, phase_model_tier, stop_requested, client, architect, applied, ui>>

\* The rest of one turn of the loop of run_iterations: the step that is in flight runs to
\* its end, whatever the stop flag reads.
RunIterationsLoop ==
    /\ run.status = "running"
    /\ run.in_flight
    /\ StepInFlight
    /\ UNCHANGED <<caller_tier, phase_model_tier, stop_requested, client, architect, applied, ui>>

\* The flag read by should_stop() is raised while a run is in progress: between two steps,
\* or while a step is in flight (stop_step is then the number of that step).
RequestStop ==
    /\ run.status = "running"
    /\ run.has_stop
    /\ ~stop_requested
    /\ stop_requested' = TRUE
    /\ run' = [run EXCEPT !.stop_step = IF run.in_flight THEN run.steps_completed + 1 ELSE 0]
    /\ UNCHANGED <<state, caller_tier, phase_model_tier, now, last, client, architect, applied, ui>>

Next ==
    \/ RunNextStep
    \/ ApplyRunOptions
    \/ PlanSteps
    \/ DropResult
    \/ Restore
    \/ GeneratePrompts
    \/ RunIterationsStart
    \/ RunIterationsCheck
    \/ RunIterationsLoop
    \/ RequestStop

Spec == Init /\ [][Next]_vars

\* run_iterations is one sequential function: once called, its loop keeps running until it
\* returns or raises.
FairSpec == Spec /\ WF_vars(RunIterationsCheck) /\ WF_vars(RunIterationsLoop)

----------------------------------------------------------------------------
(* Calls of LLMClient.generate_text *)

\* The calls explored: the max_retries the client was built with, tier, model_override
\* ("" is None) and system_text.
ClientCalls == {<<-1, "budget", "", "">>,
                <<0, "premium", "", "Be brief.">>,
                <<1, "budget", "gpt-5-search-api", "">>,
                <<MaxRetries, "premium", "", "Be brief.">>,
                <<MaxRetries, "budget", "gpt-5-search-api", "">>}

\* LLMClient(config, max_retries=...).generate_text(tier=..., user_text=..., ...) up to its
\* retry loop: model resolution, the import of the openai package and the construction of
\* the OpenAI client, each of which can fail.
GenerateText ==
    /\ client.status # "running"
    /\ \E call \in ClientCalls, import_ok \in BOOLEAN, construct_ok \in BOOLEAN :
          LET frame == [IdleClient EXCEPT
                            !.max_retries_arg = call[1],
                            !.max_retries = IF call[1] > 0 THEN call[1] ELSE 0,
                            !.tier = call[2],
                            !.model = resolve_model_override(call[2], call[3]),
                            !.system_text = call[4],
                            !.user_text = "Hi"]
          IN  client' = IF ~import_ok
                        THEN [frame EXCEPT !.status = "raised", !.raised = LLMError("unknown")]
                        ELSE IF ~construct_ok
                        THEN [frame EXCEPT !.status = "raised",
                                           !.raised = [type |-> "OpenAIError",
                                                       detail |-> "The api_key client option must be set"]]
                        ELSE [BeginAttempt(frame, 0) EXCEPT !.status = "running"]
    /\ UNCHANGED <<state, caller_tier, phase_model_tier, now, last, run, stop_requested, architect, applied, ui>>

\* client.chat.completions.create(**request_base), and the handling of its result.
SendRequest ==
    /\ client.status = "running"
    /\ \E outcome \in BackendOutcomes(BuildRequest(client)) :
          client' = AfterRequest(client, outcome)
    /\ UNCHANGED <<state, caller_tier, phase_model_tier, now, last, run, stop_requested, architect, applied, ui>>

NextClient ==
    \/ GenerateText
    \/ SendRequest

\* The client is explored on its own, next to one project that stays as it is.
InitClient ==
    /\ Init
    /\ state.output_format = "JSON"
    /\ state.iterations = 1

SpecClient == InitClient /\ [][NextClient]_vars

\* Every backend request returns or raises: the call that is running takes its next step.
FairSpecClient == SpecClient /\ WF_vars(SendRequest)

----------------------------------------------------------------------------
(* Calls of the prompt architect *)

\* The projects the architect is asked about: outcome, output format, additive template,
\* reductive template.
ArchitectProjects == {<<"Test", "JSON", TEMPLATE_EMPTY, TEMPLATE_EMPTY>>,
                      <<"Fill {{PHASE_NAME}} in", "Markdown", TEMPLATE_EMPTY, TEMPLATE_EMPTY>>,
                      <<"Test", "", TEMPLATE_STEP, TEMPLATE_BLANK>>,
                      <<"", "Python", TEMPLATE_STEP, TEMPLATE_JSON>>}

\* generate_template_for_phase(state, phase_name).
GenerateTemplateForPhase ==
    /\ \E phase_name \in {"additive", "reductive", "final"}, config_ok \in BOOLEAN,
          reply \in ArchitectReplies :
          architect' = ArchitectRecord("generate_template_for_phase", phase_name, FALSE,
                                       config_ok, state,
                                       generate_template_for_phase(state, phase_name,
                                                                   config_ok, reply))
    /\ UNCHANGED <<state, caller_tier, phase_model_tier, now, last, run, stop_requested, client, applied, ui>>

\* generate_templates(state).
GenerateTemplates ==
    /\ \E config_ok \in BOOLEAN, additive_reply \in ArchitectReplies,
          reductive_reply \in ArchitectReplies :
          architect' = ArchitectRecord("generate_templates", "", FALSE, config_ok, state,
                                       generate_templates(state, config_ok, additive_reply,
                                                          reductive_reply))
    /\ UNCHANGED <<state, caller_tier, phase_model_tier, now, last, run, stop_requested, client, applied, ui>>

\* generate_prompts_action of the UI: the templates generated are merged into the template
\* fields and a prompt_architect event with the notes is appended to the history; on an
\* exception, and when no phase needs a template, the project stays as it is.
GeneratePromptsAction ==
    /\ Len(state.history) + 1 <= MaxGenerations
    /\ \E overwrite_existing \in BOOLEAN, config_ok \in BOOLEAN,
          additive_reply \in ActionReplies, reductive_reply \in ActionReplies :
          LET Finish(result, done) ==
                  /\ architect' = ArchitectRecord("generate_prompts_action", "",
                                                  overwrite_existing, config_ok, state, result)
                  /\ state' = IF done
                              THEN Canon([state EXCEPT
                                     !.additive_prompt_template =
                                         apply_generated_templates(
                                             state.additive_prompt_template,
                                             state.reductive_prompt_template,
                                             result.templates.additive,
                                             result.templates.reductive,
                                             overwrite_existing).next_additive,
                                     !.reductive_prompt_template =
                                         apply_generated_templates(
                                             state.additive_prompt_template,
                                             state.reductive_prompt_template,
                                             result.templates.additive,
                                             result.templates.reductive,
                                             overwrite_existing).next_reductive,
                                     !.history = Append(@, make_prompt_architect_event(
                                                    FreshId(UsedIds(state), 1),
                                                    resolve_model(PROMPT_ARCHITECT_TIER),
                                                    result.notes, now))])
                              ELSE state
                  /\ now' = IF done THEN now + 1 ELSE now
              Returned(result) == Finish(result, result.raised = NoError /\ result.notes # <<>>)
          IN  Returned(generate_prompts(state, overwrite_existing, config_ok,
                                        additive_reply, reductive_reply))
    /\ UNCHANGED <<caller_tier, phase_model_tier, last, run, stop_requested, client, applied, ui>>

NextArchitect ==
    \/ GenerateTemplateForPhase
    \/ GenerateTemplates
    \/ GeneratePromptsAction

InitArchitect ==
    /\ \E p \in ArchitectProjects :
          state = ProjectState(1, 2, 1, p[1], "Return OK only.", "", 1, p[2],
                               "Add detail.", "", p[3], p[4], "", <<>>)
    /\ caller_tier = ""
    /\ phase_model_tier = [additive |-> "budget", reductive |-> "budget"]
    /\ now = 1
    /\ last = NoCall
    /\ run = IdleRun
    /\ stop_requested = FALSE
    /\ client = IdleClient
    /\ architect = IdleArchitect
    /\ applied = NoApplication
    /\ ui = IdleUI

SpecArchitect == InitArchitect /\ [][NextArchitect]_vars

----------------------------------------------------------------------------
(* Calls of the template renderer *)

\* The templates rendered: known and unknown placeholders, with and without blanks, and
\* brace sequences that are no placeholder.
RenderTemplates ==
    {TEMPLATE_EMPTY,
     TEMPLATE_STEP,
     <<Tok("CURRENT_OUTPUT"), Tok("FOO")>>,
     <<Lit("Goal: "), Tok("OUTCOME"), PaddedTok("FOO")>>,
     <<PaddedTok("CURRENT_OUTPUT"), Lit("{{outcome}}"), Lit("{{}}")>>,
     <<Tok("ITERATION_INDEX"), Tok("PHASE_NAME"), Tok("PHASE_RULES")>>,
     <<Tok("FORMAT"), Tok("FORMAT_GUIDANCE"), Tok("REQUIREMENTS"), Tok("SPECIAL_RESOURCES")>>,
     <<Tok("CURRENT_OUTPUT"), Lit(" and again "), Tok("CURRENT_OUTPUT")>>}

\* render_template(template_text, build_context(state, phase_name, iteration_index)).
RenderTemplate ==
    /\ \E template_text \in RenderTemplates, phase_name \in {"additive", "reductive", ""},
          iteration_index \in 1..MaxIterations :
          LET context == build_context(state, phase_name, iteration_index)
          IN  applied' = Application("render_template",
                                     [template_text |-> template_text, context |-> context],
                                     render_template(template_text, context))
    /\ UNCHANGED <<state, caller_tier, phase_model_tier, now, last, run, stop_requested, client, architect, ui>>

\* The projects rendered differ in outcome, current output and output format.
InitRender ==
    /\ \E p \in {"Test", "Fill {{PHASE_NAME}} in"} \X {"", "Fill {{PHASE_NAME}} in", TEXT_OBJECT}
                   \X {"JSON", "Markdown", ""} :
          state = ProjectState(1, 2, 1, p[1], "Return OK only.", "", 1, p[3],
                               "Add detail.", "Remove detail.", TEMPLATE_STEP, TEMPLATE_STEP,
                               p[2], <<>>)
    /\ caller_tier = ""
    /\ phase_model_tier = [additive |-> "budget", reductive |-> "budget"]
    /\ now = 1
    /\ last = NoCall
    /\ run = IdleRun
    /\ stop_requested = FALSE
    /\ client = IdleClient
    /\ architect = IdleArchitect
    /\ applied = NoApplication
    /\ ui = IdleUI

SpecRender == InitRender /\ [][RenderTemplate]_vars

----------------------------------------------------------------------------
(* persistence.py *)

SUPPORTED_SCHEMA_VERSIONS == {1}

\* The attributes of the state that _serialize_state reads and _deserialize_state passes to
\* ProjectState by keyword, in the order of the document; "history" comes last.
SerializedFields ==
    <<"schema_version", "project_title", "outcome", "requirements_constraints",
      "special_resources", "iterations", "output_format", "additive_phase_model_tier",
      "reductive_phase_model_tier", "additive_phase_allowed_changes",
      "reductive_phase_allowed_changes", "additive_prompt_template",
      "reductive_prompt_template", "current_output">>

\* _serialize_state(state): the payload that save_project writes with json.dumps, or the
\* AttributeError of the first attribute the object does not have. A history item is
\* record.__dict__, the fields of the record without its identity.
_serialize_state(st) ==
    LET missing == {i \in 1..Len(SerializedFields) : SerializedFields[i] \notin DOMAIN st}
        first == CHOOSE i \in missing : \A j \in missing : i <= j
        keys == {SerializedFields[i] : i \in 1..Len(SerializedFields)} \cup {"history"}
        Dict(record) == [k \in DOMAIN record \ {"oid"} |-> record[k]]
    IN  IF missing # {}
        THEN [raised |-> [type |-> "AttributeError", detail |-> SerializedFields[first]],
              ret |-> <<>>]
        ELSE [raised |-> NoError,
              ret |-> [k \in keys |->
                          IF k = "history"
                          THEN [i \in 1..Len(st.history) |-> Dict(st.history[i])]
                          ELSE st[k]]]

\* _deserialize_state(payload) on the payload json.loads gives back: the schema check,
\* IterationRecord(**item) for every history item, then ProjectState(...) with one keyword
\* per serialized field, a missing key taking its default. ProjectState raises TypeError on
\* a keyword that is none of its fields. The values of the documents explored are strings
\* and integers already, which str() and int() return as they are.
_deserialize_state(payload, sid) ==
    LET Get(key, default) == IF key \in DOMAIN payload THEN payload[key] ELSE default
        raw_history == Get("history", <<>>)
        history == [i \in 1..Len(raw_history) |->
                       PostInit([oid |-> sid + 1 + i] @@ raw_history[i])]
        defaults == [schema_version |-> 1, project_title |-> "", outcome |-> "",
                     requirements_constraints |-> "", special_resources |-> "",
                     iterations |-> 1, output_format |-> "Markdown",
                     additive_phase_model_tier |-> "budget",
                     reductive_phase_model_tier |-> "budget",
                     additive_phase_allowed_changes |-> "",
                     reductive_phase_allowed_changes |-> "",
                     additive_prompt_template |-> "", reductive_prompt_template |-> "",
                     current_output |-> ""]
        fields == DOMAIN ProjectState(0, 0, 1, "", "", "", 1, "", "", "", "", "", "", <<>>)
                      \ {"sid", "hid"}
        unexpected == {i \in 1..Len(SerializedFields) : SerializedFields[i] \notin fields}
        first == CHOOSE i \in unexpected : \A j \in unexpected : i <= j
    IN  IF "schema_version" \notin DOMAIN payload
        THEN [raised |-> ValueError("Project file is missing required field: schema_version"),
              ret |-> NoState]
        ELSE IF payload.schema_version \notin SUPPORTED_SCHEMA_VERSIONS
        THEN [raised |-> ValueError("Unsupported schema_version"), ret |-> NoState]
        ELSE IF unexpected # {}
        THEN [raised |-> [type |-> "TypeError", detail |-> SerializedFields[first]],
              ret |-> NoState]
        ELSE [raised |-> NoError,
              ret |-> [sid |-> sid, hid |-> sid + 1, history |-> history]
                          @@ [k \in DOMAIN defaults |-> Get(k, defaults[k])]]

----------------------------------------------------------------------------
(* Saving and loading a project *)

\* save_project(state, path): the document written, or what _serialize_state raised.
SaveProject ==
    /\ applied' = Application("save_project", state, _serialize_state(state))
    /\ UNCHANGED <<state, caller_tier, phase_model_tier, now, last, run, stop_requested, client, architect, ui>>

\* load_project(path) of a project file: the document of the project with every serialized
\* attribute in it (its title and tiers drawn here), the payload of
\* test_load_project_from_text_supports_title_and_defaults, a document of another schema
\* version and one without a version.
LoadProject ==
    /\ \E project_title \in {"", "My Test Project"}, additive \in ModelTier, reductive \in ModelTier,
          kind \in {"full", "partial", "unsupported", "unversioned"} :
          LET full == _serialize_state([project_title |-> project_title,
                                        additive_phase_model_tier |-> additive,
                                        reductive_phase_model_tier |-> reductive] @@ state).ret
              document == CASE kind = "full" -> full
                            [] kind = "partial" -> [schema_version |-> 1,
                                                    project_title |-> project_title,
                                                    outcome |-> "Goal", history |-> <<>>]
                            [] kind = "unsupported" -> [full EXCEPT !.schema_version = 2]
                            [] OTHER -> [k \in DOMAIN full \ {"schema_version"} |-> full[k]]
          IN  applied' = Application("load_project", document, _deserialize_state(document, 1))
    /\ UNCHANGED <<state, caller_tier, phase_model_tier, now, last, run, stop_requested, client, architect, ui>>

\* The projects saved: with and without output, in three formats, with histories of phase
\* steps, repair, prompt_architect and restore events.
InitPersistence ==
    /\ \E outcome \in {"Test", ""}, output_format \in {"JSON", "Markdown", "Text"},
          current_output \in {"", TEXT_OBJECT}, events \in 0..4 :
          LET all == <<IterationRecord(3, HISTORY_EVENT_PHASE_STEP, 0, 1, 1, "additive",
                                       "gpt-5-mini", <<>>, <<Lit("Add.")>>, TEXT_OBJECT, 1),
                       make_prompt_architect_event(4, "gpt-5", <<"Prompt Architect templates generated.">>, 2),
                       IterationRecord(5, HISTORY_EVENT_PHASE_STEP, 1, 1, 2, "reductive",
                                       "gpt-5-mini", <<>>, <<Lit("Reduce.")>>, TEXT_BROKEN, 3),
                       make_repair_event(6, "gpt-5-mini", <<"Validation failed.">>, <<Lit("Fix.")>>, TEXT_OBJECT, 4)>>
          IN  state = ProjectState(1, 2, 1, outcome, "Return OK only.", "", 2, output_format,
                                   "Add detail.", "Remove detail.", TEMPLATE_STEP, TEMPLATE_JSON,
                                   current_output, SubSeq(all, 1, events))
    /\ caller_tier = ""
    /\ phase_model_tier = [additive |-> "budget", reductive |-> "budget"]
    /\ now = 5
    /\ last = NoCall
    /\ run = IdleRun
    /\ stop_requested = FALSE
    /\ client = IdleClient
    /\ architect = IdleArchitect
    /\ applied = NoApplication
    /\ ui = IdleUI

SpecPersistence == InitPersistence /\ [][SaveProject \/ LoadProject]_vars

----------------------------------------------------------------------------
(* main.py: the run, stop and restore handlers of the page *)

\* The run coroutine ends: `finally: is_run_active = False`, and nothing is held any more.
EndRun(u, status, message) ==
    [u EXCEPT !.is_run_active = FALSE, !.task = "none", !.position = "idle",
              !.current_state = NoState, !.steps_completed = 0, !.total_phase_steps = 0,
              !.status = status, !.notified = message]

\* run_next_step_action() up to its await: a request made while a run is active is turned
\* away; otherwise the flag is set, the state is read from the inputs and run_next_step is
\* handed to a worker thread.
run_next_step_action ==
    /\ IF RunIsActive(ui)
       THEN ui' = [ui EXCEPT !.notified = "A run is already active."]
       ELSE /\ Len(state.history) + StepRecords(state_from_ui(state)) <= MaxHistory
            /\ ui' = [ui EXCEPT !.is_run_active = TRUE, !.task = "run_next_step_action",
                                !.position = "in_flight", !.in_flight = @ + 1,
                                !.current_state = state_from_ui(state),
                                !.status = "Running", !.notified = ""]
    /\ UNCHANGED <<state, caller_tier, phase_model_tier, now, last, run, stop_requested, client, architect, applied>>

\* run_iterations_action() up to its first await: the same check, then the iteration count
\* is read and checked, the flag is set and the stop flag cleared, the state is read from
\* the inputs and the first step is handed to a worker thread. The stop flag, cleared just
\* before, is false at the first pass of the loop.
run_iterations_action ==
    LET requested_iterations == IF state.iterations = 0 THEN 1 ELSE state.iterations
    IN  IF RunIsActive(ui)
        THEN /\ ui' = [ui EXCEPT !.notified = "A run is already active."]
             /\ UNCHANGED <<state, caller_tier, phase_model_tier, now, last, run, stop_requested, client, architect, applied>>
        ELSE IF requested_iterations < 1
        THEN /\ ui' = EndRun(ui, "Error", "Run iterations failed.")
             /\ stop_requested' = FALSE
             /\ UNCHANGED <<state, caller_tier, phase_model_tier, now, last, run, client, architect, applied>>
        ELSE /\ Len(state.history)
                  + requested_iterations * 2 * StepRecords(state_from_ui(state)) <= MaxHistory
             /\ ui' = [ui EXCEPT !.is_run_active = TRUE, !.task = "run_iterations_action",
                                 !.position = "in_flight", !.in_flight = @ + 1,
                                 !.current_state = state_from_ui(state),
                                 !.steps_completed = 0,
                                 !.total_phase_steps = requested_iterations * 2,
                                 !.status = "Running", !.notified = ""]
             /\ stop_requested' = FALSE
             /\ UNCHANGED <<state, caller_tier, phase_model_tier, now, last, run, client, architect, applied>>

\* run_next_step(state) returns on the worker thread or raises, and the coroutine goes on
\* from its await: the result is applied to the inputs; run_next_step_action ends, and
\* run_iterations_action counts the step and yields with `await asyncio.sleep(0)`. An
\* exception ends either action with its error notification.
StepReturns ==
    /\ ui.position = "in_flight"
    /\ \E config_ok \in BOOLEAN, phase_reply \in PhaseReplies :
       \E repair_reply \in
             (IF /\ phase_reply.kind = "text"
                 /\ validate_for_format(phase_reply.v, ui.current_state.output_format).applicable
                 /\ ~validate_for_format(phase_reply.v, ui.current_state.output_format).ok
              THEN RepairReplies ELSE {NoReply}) :
          LET Resume(out) ==
                  IF out.raised # NoError
                  THEN /\ ui' = [EndRun(ui, "Error",
                                        IF ui.task = "run_next_step_action"
                                        THEN "Run next step failed."
                                        ELSE "Run iterations failed.")
                                   EXCEPT !.in_flight = @ - 1]
                       /\ stop_requested' = IF ui.task = "run_iterations_action"
                                            THEN FALSE ELSE stop_requested
                       /\ UNCHANGED <<state, now>>
                  ELSE /\ state' = apply_state(state, out.ret)
                       /\ now' = now + Len(out.ret.history) - Len(ui.current_state.history)
                       /\ IF ui.task = "run_next_step_action"
                          THEN /\ ui' = [EndRun(ui, "Idle", "Run next step completed.")
                                           EXCEPT !.in_flight = @ - 1]
                               /\ UNCHANGED stop_requested
                          ELSE /\ ui' = [ui EXCEPT !.position = "yielded",
                                                   !.in_flight = @ - 1,
                                                   !.current_state = Canon(out.ret),
                                                   !.steps_completed = @ + 1]
                               /\ UNCHANGED stop_requested
          IN  Resume(run_next_step(ui.current_state, TierParameter(""), config_ok,
                                   phase_reply, repair_reply, now))
    /\ UNCHANGED <<caller_tier, phase_model_tier, last, run, client, architect, applied>>

\* run_iterations_action() from asyncio.sleep(0) on: the loop is over after the last step,
\* a stop request ends it before the next step, and otherwise the state the coroutine holds
\* goes to run_next_step on a worker thread.
ResumeRun ==
    /\ ui.position = "yielded"
    /\ IF ui.steps_completed >= ui.total_phase_steps
       THEN /\ ui' = EndRun(ui, "Idle", "Run iterations completed.")
            /\ stop_requested' = FALSE
       ELSE IF stop_requested
       THEN /\ ui' = EndRun(ui, "Stopped", "Run stopped.")
            /\ stop_requested' = FALSE
       ELSE /\ ui' = [ui EXCEPT !.position = "in_flight", !.in_flight = @ + 1,
                                !.status = "Running"]
            /\ UNCHANGED stop_requested
    /\ UNCHANGED <<state, caller_tier, phase_model_tier, now, last, run, client, architect, applied>>

\* stop_action(): ignored unless a run is active.
stop_action ==
    /\ IF ~ui.is_run_active
       THEN UNCHANGED <<ui, stop_requested>>
       ELSE /\ stop_requested' = TRUE
            /\ ui' = [ui EXCEPT !.status = "Stopping", !.notified = "Stop requested."]
    /\ UNCHANGED <<state, caller_tier, phase_model_tier, now, last, run, client, architect, applied>>

\* restore_history_entry_action(record_index): the output of the selected entry goes to
\* the current-output input, and history_records is cleared and refilled with the restored
\* history, which ends with the new restore event. No run flag is consulted.
restore_history_entry_action ==
    /\ Len(state.history) < MaxHistory
    /\ now < 2 * MaxHistory
    /\ \E record_index \in 0..Len(state.history) :
          LET Restored(out) ==
                  IF out.raised # NoError
                  THEN /\ ui' = [ui EXCEPT !.status = "Error",
                                           !.notified = "Restore failed: invalid history selection."]
                       /\ UNCHANGED <<state, now>>
                  ELSE /\ state' = Canon([state EXCEPT !.current_output = out.restored_output,
                                                       !.history = out.history])
                       /\ now' = now + 1
                       /\ ui' = [ui EXCEPT !.status = "Restored",
                                           !.notified = "Current output restored from selected history entry.",
                                           !.appended = @ \cup {now}]
          IN  Restored(restore_history_snapshot(state, record_index, now))
    /\ UNCHANGED <<caller_tier, phase_model_tier, last, run, stop_requested, client, architect, applied>>

\* The page opens on a project with templates, in one of three formats and with an
\* iteration count that may be empty or negative.
InitUI ==
    /\ \E output_format \in {"JSON", "Markdown", ""}, iterations \in {-1, 0, 1} :
          state = ProjectState(1, 2, 1, "Test", "Return OK only.", "", iterations, output_format,
                               "Add detail.", "Remove detail.", TEMPLATE_STEP, TEMPLATE_JSON,
                               "", <<>>)
    /\ caller_tier = ""
    /\ phase_model_tier = [additive |-> "budget", reductive |-> "budget"]
    /\ now = 1
    /\ last = NoCall
    /\ run = IdleRun
    /\ stop_requested = FALSE
    /\ client = IdleClient
    /\ architect = IdleArchitect
    /\ applied = NoApplication
    /\ ui = IdleUI

NextUI ==
    \/ run_next_step_action
    \/ run_iterations_action
    \/ StepReturns
    \/ ResumeRun
    \/ stop_action
    \/ restore_history_entry_action

SpecUI == InitUI /\ [][NextUI]_vars

----------------------------------------------------------------------------
(* tools/agentctl.py *)

ROLE_TO_PROMPT_ID ==
    [design |-> "prompt.stage_design",
     implement |-> "prompt.checkpoint_implementation",
     review |-> "prompt.checkpoint_review",
     issues_triage |-> "prompt.issues_triage",
     consolidation |-> "prompt.consolidation",
     context_capture |-> "prompt.context_capture",
     improvements |-> "prompt.process_improvements",
     advance |-> "prompt.advance_checkpoint"]

\* No loop result: .vibe/LOOP_RESULT.json is missing, unreadable or not an object.
None == [absent |-> TRUE]

\* Mutation: a hint that names the improvements role is honoured as well.
_should_override_to_next_hint_any_hint(decision, loop_result) ==
    LET Get(d, key, default) == IF key \in DOMAIN d THEN d[key] ELSE default
        reason_text == Get(decision, "reason", <<>>)
    IN  /\ loop_result # None
        /\ Get(decision, "recommended_role", "") = "improvements"
        /\ \E i \in 1..Len(reason_text) : reason_text[i] = "Work log has"
        /\ Get(loop_result, "loop", "") = "improvements"
        /\ Get(loop_result, "result", "") = "completed"
        /\ Get(loop_result, "stage", "") = Get(decision, "stage", "")
        /\ Get(loop_result, "checkpoint", "") = Get(decision, "checkpoint", "")
        /\ Upper(Get(loop_result, "status", "")) = Upper(Get(decision, "status", ""))
        /\ Strip(Get(loop_result, "next_role_hint", "")) \in DOMAIN ROLE_TO_PROMPT_ID

\* _should_override_to_next_hint(decision, loop_result); dict.get(key, "") is Get, and a
\* text is the sequence of the strings it is made of.
_should_override_to_next_hint(decision, loop_result) ==
    LET Get(d, key, default) == IF key \in DOMAIN d THEN d[key] ELSE default
        reason_text == Get(decision, "reason", <<>>)
    IN  /\ loop_result # None
        /\ Get(decision, "recommended_role", "") = "improvements"
        /\ \E i \in 1..Len(reason_text) : reason_text[i] = "Work log has"
        /\ Get(loop_result, "loop", "") = "improvements"
        /\ Get(loop_result, "result", "") = "completed"
        /\ Get(loop_result, "stage", "") = Get(decision, "stage", "")
        /\ Get(loop_result, "checkpoint", "") = Get(decision, "checkpoint", "")
        /\ Upper(Get(loop_result, "status", "")) = Upper(Get(decision, "status", ""))
        /\ Strip(Get(loop_result, "next_role_hint", "")) \in DOMAIN ROLE_TO_PROMPT_ID
        /\ Strip(Get(loop_result, "next_role_hint", "")) # "improvements"

\* _apply_next_hint_override(decision, loop_result): a copy of the decision, with four keys
\* set when the hint is to be honoured.
_apply_next_hint_override(decision, loop_result) ==
    IF ~_should_override_to_next_hint(decision, loop_result)
    THEN decision
    ELSE LET next_hint == Strip(loop_result.next_role_hint)
         IN  [recommended_role |-> next_hint,
              recommended_prompt_id |-> ROLE_TO_PROMPT_ID[next_hint],
              recommended_prompt_title |-> <<"Checkpoint via next_role_hint (", next_hint, ")">>,
              reason |-> <<"Recent improvements loop completed for this same state; ",
                           "honoring next_role_hint '", next_hint, "'.">>] @@ decision

\* _apply_work_log_threshold_override(decision).
_apply_work_log_threshold_override(decision) ==
    LET reason_text == IF "reason" \in DOMAIN decision THEN decision.reason ELSE <<>>
        role == IF "recommended_role" \in DOMAIN decision THEN decision.recommended_role ELSE ""
    IN  IF role # "improvements" THEN decision
        ELSE IF ~\E i \in 1..Len(reason_text) : reason_text[i] = "Work log has" THEN decision
        ELSE [recommended_role |-> "implement",
              recommended_prompt_id |-> ROLE_TO_PROMPT_ID["implement"],
              recommended_prompt_title |-> <<"Checkpoint via work-log threshold fallback (implement)">>,
              reason |-> <<"Work-log threshold triggered improvements routing; ",
                           "wrapper fallback selects implement to avoid repeated workflow starvation.">>]
                 @@ decision

----------------------------------------------------------------------------
(* The wrapper on `next --format json` *)

\* main() on a decision object printed by the wrapped agentctl, once per invocation of the
\* wrapper: both overrides are applied and the result is printed. The decisions differ in role, reason, checkpoint and status,
\* and may lack the state keys; the last loop result may be absent or differ in loop,
\* result, checkpoint, status and hint.
AgentctlNext ==
    /\ applied = NoApplication
    /\ \E role \in {"improvements", "implement", "review"},
          reason \in {<<"Work log has", " 21 entries (>15).">>,
                      <<"Context snapshot missing (.vibe/CONTEXT.md).">>, <<>>},
          checkpoint \in {"8.2", "8.3"}, status \in {"NOT_STARTED", "not_started", "IN_PROGRESS"},
          with_state \in BOOLEAN :
       \E loop_result \in {None} \cup
             [loop : {"improvements", "implement"}, result : {"completed", "blocked"},
              stage : {"8"}, checkpoint : {"8.2"}, status : {"NOT_STARTED", "IN_PROGRESS"},
              next_role_hint : {"implement", "review", "improvements", "unknown", " "}]
             \cup [loop : {"improvements"}, result : {"completed"}] :
          LET head == [recommended_role |-> role,
                       recommended_prompt_id |-> ROLE_TO_PROMPT_ID[role],
                       reason |-> reason]
              decision == IF with_state
                          THEN head @@ [stage |-> "8", checkpoint |-> checkpoint, status |-> status]
                          ELSE head
          IN  applied' = Application("agentctl next",
                                     [decision |-> decision, loop_result |-> loop_result],
                                     _apply_work_log_threshold_override(
                                         _apply_next_hint_override(decision, loop_result)))
    /\ UNCHANGED <<state, caller_tier, phase_model_tier, now, last, run, stop_requested, client, architect, ui>>

InitAgentctl ==
    /\ state = NoState
    /\ caller_tier = ""
    /\ phase_model_tier = [additive |-> "budget", reductive |-> "budget"]
    /\ now = 1
    /\ last = NoCall
    /\ run = IdleRun
    /\ stop_requested = FALSE
    /\ client = IdleClient
    /\ architect = IdleArchitect
    /\ applied = NoApplication
    /\ ui = IdleUI

SpecAgentctl == InitAgentctl /\ [][AgentctlNext]_vars

----------------------------------------------------------------------------
(* Properties of the engine *)

IsTaggedPhaseStep(record) == record.event_type = "phase_step"

\* The records tagged phase_step, in stored order.
TaggedPhaseSteps(records) == SelectSeq(records, IsTaggedPhaseStep)

IsRepairRecord(record) == record.event_type = "repair"

\* The records a returned call added after those of its argument.
Appended(call) ==
    SubSeq(call.ret.history, Len(call.arg_before.history) + 1, Len(call.ret.history))

\* A record without its object identity.
Fields(record) == [record EXCEPT !.oid = 0]

OtherPhase(name) == IF name = "additive" THEN "reductive" ELSE "additive"

StepReturned == last.op = "run_next_step" /\ last.raised = NoError

\* The format is one the validator checks, and it rejects the text.
Rejected(text, output_format) ==
    \/ (output_format \in {"JSON", "json"} /\ text # "{}")
    \/ (output_format \in {"Python", "python"} /\ text = "{")

Validated(output_format) == output_format \in {"JSON", "json", "Python", "python"}

\* C1: a returned run_next_step emits a phase_step record first; it is additive, iteration 1,
\* step 1 when the history given to it holds no phase_step record, and otherwise it has the
\* opposite phase of the last phase_step record of that history, whatever other records
\* stand in between.
C1_PhaseAlternates ==
    StepReturned =>
        LET prior == TaggedPhaseSteps(last.arg_before.history)
            emitted == Appended(last)[1]
        IN  /\ emitted.event_type = "phase_step"
            /\ IF prior = <<>>
               THEN /\ emitted.phase_name = "additive"
                    /\ emitted.iteration_index = 1
                    /\ emitted.phase_step_index = 1
               ELSE emitted.phase_name = OtherPhase(prior[Len(prior)].phase_name)

\* C1 witness: a third phase step (additive again) emitted after two phase steps with another
\* event stored among or after them.
C1_Witness ==
    /\ StepReturned
    /\ Len(TaggedPhaseSteps(last.arg_before.history)) = 2
    /\ Len(last.arg_before.history) = 3
    /\ Appended(last)[1].phase_name = "additive"
    /\ Appended(last)[1].phase_step_index = 3

\* The phase_step records of a history are numbered 1, 2, 3, ... and record i belongs to
\* iteration ceil(i / 2).
DenseIndices(records) ==
    LET steps == TaggedPhaseSteps(records)
    IN  \A i \in 1..Len(steps) :
            /\ steps[i].phase_step_index = i
            /\ 2 * steps[i].iteration_index \in {i, i + 1}

\* C2: in every history the caller holds, a call returned or a run is working on, the
\* phase_step records carry phase_step_index 1, 2, 3, ... without gap or repeat and
\* iteration_index = ceil(phase_step_index / 2).
C2_DenseStepIndices ==
    /\ DenseIndices(state.history)
    /\ (last.ret.sid # 0 => DenseIndices(last.ret.history))
    /\ (run.current_state.sid # 0 => DenseIndices(run.current_state.history))

\* C2 witness: three phase steps and another event in the caller's history.
C2_Witness ==
    /\ Len(TaggedPhaseSteps(state.history)) = 3
    /\ Len(state.history) = 4
    /\ state.history[4].event_type = "phase_step"

\* C3: one run_next_step makes at most two generate_text calls, the second only after a
\* phase output the validator rejected; it appends at most two records, at most one of them
\* a repair record, also when the repaired text is rejected again.
C3_SingleRepairAttempt ==
    last.op = "run_next_step" =>
        /\ last.requests <= 2
        /\ (last.requests = 2 =>
                /\ last.replies[1].kind = "text"
                /\ Rejected(last.replies[1].v, last.arg_before.output_format))
        /\ (last.raised = NoError =>
                /\ Len(Appended(last)) <= 2
                /\ Len(Appended(last)) = last.requests
                /\ Len(SelectSeq(Appended(last), IsRepairRecord)) <= 1)

\* C3 witness: the repair call returned a text that is rejected again.
C3_Witness ==
    /\ StepReturned
    /\ last.requests = 2
    /\ last.replies[2].kind = "text"
    /\ Rejected(last.replies[2].v, last.arg_before.output_format)

\* The phase call returned text a and the repair call returned text b.
StepReplied(a, b) ==
    /\ last.op = "run_next_step"
    /\ last.requests = 2
    /\ last.replies[1] = [kind |-> "text", v |-> a]
    /\ last.replies[2] = [kind |-> "text", v |-> b]

\* C4: with a validated format, a rejected phase output and an accepted repair output, the
\* step returns with exactly two records appended, the phase_step holding the rejected text
\* and then the repair, and current_output is the repaired text.
C4_RepairAdopted ==
    \A a, b \in Texts :
        (/\ StepReplied(a, b)
         /\ Validated(last.arg_before.output_format)
         /\ Rejected(a, last.arg_before.output_format)
         /\ ~Rejected(b, last.arg_before.output_format)) =>
            /\ last.raised = NoError
            /\ Len(Appended(last)) = 2
            /\ Appended(last)[1].event_type = "phase_step"
            /\ Appended(last)[1].output_snapshot = a
            /\ Appended(last)[2].event_type = "repair"
            /\ last.ret.current_output = b

\* C4 witness: a Python project whose phase output is rejected and whose repair is accepted.
C4_Witness ==
    /\ StepReplied("{", "x = 1")
    /\ last.arg_before.output_format = "Python"
    /\ last.ret.current_output = "x = 1"

\* C5: when the phase output and the repair output are both rejected, the repair record is
\* still appended with the repaired text as its snapshot and the residual error in its note,
\* and current_output stays the phase output; current_output differs from the phase output
\* only when the repair output is accepted.
C5_FailedRepairKept ==
    \A a, b \in Texts :
        StepReplied(a, b) =>
            /\ (Rejected(b, last.arg_before.output_format) =>
                    /\ last.raised = NoError
                    /\ Len(Appended(last)) = 2
                    /\ Appended(last)[2].event_type = "repair"
                    /\ Appended(last)[2].output_snapshot = b
                    /\ Appended(last)[2].note_summary[1]
                          = "Repair attempted but output is still invalid: "
                    /\ SubSeq(Appended(last)[2].note_summary, 2,
                              Len(Appended(last)[2].note_summary))
                          = validate_for_format(b, last.arg_before.output_format).message
                    /\ last.ret.current_output = a)
            /\ (last.raised = NoError /\ last.ret.current_output # a =>
                    ~Rejected(b, last.arg_before.output_format))

\* C5 witness: a JSON project, the repair returned another text that is rejected too.
C5_Witness ==
    /\ StepReplied("{", "x = 1")
    /\ last.arg_before.output_format = "JSON"
    /\ last.ret.current_output = "{"
    /\ last.ret.history[Len(last.ret.history)].output_snapshot = "x = 1"

\* C6: when the phase output is accepted, or the format is not validated, a returned
\* run_next_step made one generate_text call and appended exactly one record, a phase_step
\* whose output_snapshot is the returned current_output.
C6_NoRepairWhenValid ==
    (/\ last.op = "run_next_step"
     /\ last.requests >= 1
     /\ last.replies[1].kind = "text"
     /\ ~Rejected(last.replies[1].v, last.arg_before.output_format)) =>
        /\ last.requests = 1
        /\ (last.raised = NoError =>
                /\ Len(Appended(last)) = 1
                /\ Appended(last)[1].event_type = "phase_step"
                /\ Appended(last)[1].output_snapshot = last.ret.current_output
                /\ last.ret.current_output = last.replies[1].v)

\* C6 witness: a JSON project whose phase output is accepted.
C6_Witness ==
    /\ StepReturned
    /\ last.arg_before.output_format = "JSON"
    /\ last.replies = <<[kind |-> "text", v |-> "{}"]>>
    /\ Len(last.arg_before.history) >= 1

\* In a history, a phase_step whose snapshot the validator rejects is followed by its repair.
RepairsPaired(st) ==
    \A i \in 1..Len(st.history) :
        (/\ st.history[i].event_type = "phase_step"
         /\ Rejected(st.history[i].output_snapshot, st.output_format)) =>
            /\ i < Len(st.history)
            /\ st.history[i + 1].event_type = "repair"

\* C7: a run_next_step that fails raises the error of the failing call and returns nothing;
\* the state given to it reads as before, the caller's state is the one it had, and no
\* history the caller can see holds a rejected phase_step without its repair record.
C7_FailedStepLeavesNoTrace ==
    /\ (last.op = "run_next_step" /\ last.raised # NoError) =>
          /\ last.ret = NoState
          /\ last.arg = last.arg_before
          /\ (run.status = "idle" => state = last.arg_before)
          /\ (run.status = "raised" => state = run.arg_before /\ run.current_state = NoState)
          /\ (last.requests >= 1 /\ last.replies[last.requests].kind = "error" =>
                 last.raised = LLMError(last.replies[last.requests].v))
          /\ (last.requests = 0 /\ last.raised.type = "ValueError" =>
                 last.raised = ValueError("prompt template is empty."))
    /\ RepairsPaired(state)
    /\ (last.ret.sid # 0 => RepairsPaired(last.ret))
    /\ (run.current_state.sid # 0 => RepairsPaired(run.current_state))

\* C7 witness: the repair call failed after the phase_step was appended to the local state.
C7_Witness ==
    /\ last.op = "run_next_step"
    /\ last.raised = LLMError("rate_limit")
    /\ last.requests = 2
    /\ Len(last.local.history) = Len(last.arg_before.history) + 1
    /\ Len(last.arg_before.history) >= 1

\* The history of r is another list than that of a, made of other record objects.
DistinctObjects(a, r) ==
    /\ r.hid # a.hid
    /\ \A i \in 1..Len(r.history), j \in 1..Len(a.history) : r.history[i].oid # a.history[j].oid

\* C8: after apply_run_options, run_next_step, run_iterations and restore_history_snapshot
\* the argument reads exactly as before the call, and the history returned is another list
\* of other record objects (for the engine functions, in another ProjectState).
C8_ArgumentNotMutated ==
    /\ last.op \in {"apply_run_options", "run_next_step", "restore_history_snapshot"} =>
          /\ last.arg = last.arg_before
          /\ (last.raised = NoError =>
                 /\ DistinctObjects(last.arg_before, last.ret)
                 /\ (last.op # "restore_history_snapshot" => last.ret.sid # last.arg_before.sid))
    /\ run.status # "idle" =>
          /\ run.arg = run.arg_before
          /\ (run.current_state.sid # 0 =>
                 /\ DistinctObjects(run.arg_before, run.current_state)
                 /\ run.current_state.sid # run.arg_before.sid)

\* C8 witness: a run of two steps returned on a state that already had a history.
C8_Witness ==
    /\ run.status = "returned"
    /\ run.steps_completed = 2
    /\ Len(run.arg_before.history) = 2
    /\ Len(run.current_state.history) = 4

\* The records of a are, field for field, the first records of b.
PrefixOf(a, b) ==
    /\ Len(a) <= Len(b)
    /\ \A i \in 1..Len(a) : Fields(b[i]) = Fields(a[i])

\* C9: the history given to a returned run_next_step, restore_history_snapshot or
\* run_iterations is a field-for-field prefix of the history returned (created_at included);
\* run_next_step and restore_history_snapshot add at least one record at the end.
C9_HistoryAppendOnly ==
    /\ (last.op \in {"run_next_step", "restore_history_snapshot"} /\ last.raised = NoError) =>
          /\ PrefixOf(last.arg_before.history, last.ret.history)
          /\ Len(last.ret.history) > Len(last.arg_before.history)
    /\ (run.status \in {"running", "returned"}) =>
          PrefixOf(run.arg_before.history, run.current_state.history)

\* C9 witness: a restore of the second of three records.
C9_Witness ==
    /\ last.op = "restore_history_snapshot"
    /\ last.raised = NoError
    /\ Len(last.arg_before.history) = 3
    /\ last.ret.history[4].event_type = "restore"
    /\ last.ret.history[4].output_snapshot = last.arg_before.history[2].output_snapshot
    /\ last.arg_before.history[2].created_at # last.arg_before.history[1].created_at

\* C10: should_stop is evaluated once before each step; when it first returns true, at its
\* j-th evaluation, run_iterations returns at once with cancelled=true and steps_completed
\* = j - 1, having applied j - 1 phase steps (none, and no LLM call, for j = 1; one record
\* for j = 2 on an empty history with a format that is not validated).
C10_CancelBetweenSteps ==
    /\ (run.status = "running" /\ run.has_stop) =>
          run.evals = run.steps_completed + (IF run.in_flight THEN 1 ELSE 0)
    /\ run.first_true # 0 => (run.status = "returned" /\ run.cancelled)
    /\ (run.status = "returned" /\ run.cancelled) =>
          /\ run.first_true = run.evals
          /\ run.first_true >= 1
          /\ run.first_true <= run.steps_target
          /\ run.steps_target = 2 * run.target_iterations
          /\ run.steps_completed = run.first_true - 1
          /\ Len(TaggedPhaseSteps(run.current_state.history))
                = Len(TaggedPhaseSteps(run.arg_before.history)) + run.first_true - 1
          /\ (run.first_true = 1 => run.requests = 0)
          /\ (/\ run.first_true = 2
              /\ run.arg_before.history = <<>>
              /\ ~Validated(run.arg_before.output_format)) =>
                 Len(run.current_state.history) = 1

\* C10 witness: a run of 2 iterations stopped after its first step.
C10_Witness ==
    /\ run.status = "returned"
    /\ run.cancelled
    /\ run.target_iterations = 2
    /\ run.steps_completed = 1
    /\ Len(run.current_state.history) = 1
    /\ state = Canon(run.current_state)

\* after is before with the records of one whole step: the phase_step, then its repair when
\* the validator rejects the phase output, and current_output set to the text adopted.
WholeStep(before, after) ==
    LET n == Len(before.history)
        added == SubSeq(after.history, n + 1, Len(after.history))
    IN  /\ PrefixOf(before.history, after.history)
        /\ Len(added) = (IF Rejected(added[1].output_snapshot, before.output_format) THEN 2 ELSE 1)
        /\ added[1].event_type = "phase_step"
        /\ (Len(added) = 2 => added[2].event_type = "repair")
        /\ after.current_output \in {added[i].output_snapshot : i \in 1..Len(added)}
        /\ ~Rejected(added[Len(added)].output_snapshot, before.output_format) =>
              after.current_output = added[Len(added)].output_snapshot

\* What a step in flight does to the frame of run_iterations: should_stop is not evaluated
\* and the run is not cancelled; the step raises, or it completes with all its records.
InFlightStepCompletes ==
    (run.status = "running" /\ run.in_flight) =>
        \/ run' = run
        \/ run' = [run EXCEPT !.stop_step = run.steps_completed + 1]
        \/ /\ run'.evals = run.evals
           /\ run'.first_true = run.first_true
           /\ ~run'.cancelled
           /\ ~run'.in_flight
           /\ \/ run'.status = "raised"
              \/ /\ run'.status \in {"running", "returned"}
                 /\ run'.steps_completed = run.steps_completed + 1
                 /\ WholeStep(run.current_state, run'.current_state)

\* A stop raised while step k was in flight: the run holds k completed steps when it ends
\* cancelled, and it can end not cancelled only when k was the last step.
StopTakesEffectAfterStep ==
    (run.status = "returned" /\ run.stop_step > 0) =>
        /\ run.steps_completed = run.stop_step
        /\ (run.cancelled => run.first_true = run.stop_step + 1)
        /\ (~run.cancelled => run.stop_step = run.steps_target)
        /\ RepairsPaired(run.current_state)
        /\ state = Canon(run.current_state)

\* C11: should_stop is never evaluated while a step is in flight (between its phase call and
\* its repair call); a stop raised while step k is running takes effect at the evaluation
\* before step k + 1, after the phase_step of step k and its repair, if any, were appended
\* and current_output was set.
C11_StepInFlightCompletes ==
    /\ []StopTakesEffectAfterStep
    /\ [][InFlightStepCompletes]_vars

\* C11 witness: the stop was raised while step 1 of a JSON project was in flight; the run
\* ended cancelled with the phase_step and the repair of step 1.
C11_Witness ==
    /\ run.status = "returned"
    /\ run.cancelled
    /\ run.stop_step = 1
    /\ run.steps_completed = 1
    /\ Len(run.arg_before.history) = 0
    /\ Len(run.current_state.history) = 2
    /\ run.current_state.history[2].event_type = "repair"

\* A run that returned without being cancelled: 2N steps completed, 2N phase_step records
\* appended; a run whose should_stop is absent or never returned true is not cancelled; a
\* run never completes more than 2N steps.
FullRun ==
    /\ run.status \in {"running", "returned"} =>
          /\ run.target_iterations >= 1
          /\ run.steps_target = 2 * run.target_iterations
          /\ run.steps_completed <= run.steps_target
          /\ run.requests >= run.steps_completed
          /\ Len(TaggedPhaseSteps(run.current_state.history))
                = Len(TaggedPhaseSteps(run.arg_before.history)) + run.steps_completed
    /\ run.status = "running" => run.steps_completed < run.steps_target
    /\ (run.status = "returned" /\ (~run.has_stop \/ run.first_true = 0)) =>
          /\ ~run.cancelled
          /\ run.steps_completed = 2 * run.target_iterations
          /\ Len(TaggedPhaseSteps(run.current_state.history))
                = Len(TaggedPhaseSteps(run.arg_before.history)) + 2 * run.target_iterations

\* C12: a run of N >= 1 iterations whose should_stop is absent or never returns true, and in
\* which no step fails, ends: it returns with steps_completed = 2N and cancelled = false
\* after appending exactly 2N phase_step records.  Every run ends, by returning or raising.
C12_FullRunTerminates ==
    /\ []FullRun
    /\ (run.status = "running") ~> (run.status \in {"returned", "raised"})

\* C12 witness: a run of 2 iterations with a should_stop that never returned true, on a
\* history that already held a step, returned after 4 steps.
C12_Witness ==
    /\ run.status = "returned"
    /\ ~run.cancelled
    /\ run.has_stop
    /\ run.first_true = 0
    /\ run.target_iterations = 2
    /\ run.steps_completed = 4
    /\ Len(run.current_state.history) = 4
    /\ Len(TaggedPhaseSteps(run.current_state.history)) = 4

\* The phase, iteration_index and phase_step_index of a record.
PhaseFields(r) ==
    [phase_name |-> r.phase_name, iteration_index |-> r.iteration_index,
     phase_step_index |-> r.phase_step_index]

\* C13: a restore from a valid index i returns the output_snapshot of record i (0-based) as
\* the new current output and appends exactly one record, a restore event with that
\* snapshot; the number of phase_step records is unchanged, and a run_next_step that follows
\* the restore emits the phase, iteration_index and phase_step_index it would have emitted
\* on the history without the restore event.
C13_RestoreKeepsPhase ==
    /\ (last.op = "restore_history_snapshot" /\ last.raised = NoError) =>
          LET before == last.arg_before.history
              after == last.ret.history
              i == last.record_index
          IN  /\ i >= 0 /\ i < Len(before)
              /\ last.ret.current_output = before[i + 1].output_snapshot
              /\ Len(after) = Len(before) + 1
              /\ PrefixOf(before, after)
              /\ after[Len(after)].event_type = "restore"
              /\ after[Len(after)].output_snapshot = before[i + 1].output_snapshot
              /\ Len(TaggedPhaseSteps(after)) = Len(TaggedPhaseSteps(before))
              /\ Len(phase_step_history(after)) = Len(phase_step_history(before))
              /\ state = Canon(last.ret)
    /\ (/\ StepReturned
        /\ last.arg_before.history # <<>>
        /\ last.arg_before.history[Len(last.arg_before.history)].event_type = "restore") =>
          LET h == last.arg_before.history
              without == [last.arg_before EXCEPT !.history = SubSeq(h, 1, Len(h) - 1)]
          IN  PhaseFields(Appended(last)[1]) = _next_phase_metadata(without)

\* C13 witness: the first of three records is restored, its snapshot differs from the
\* current output, and two phase steps are in the history.
C13_Witness ==
    /\ last.op = "restore_history_snapshot"
    /\ last.raised = NoError
    /\ last.record_index = 0
    /\ Len(last.arg_before.history) = 3
    /\ Len(TaggedPhaseSteps(last.arg_before.history)) = 2
    /\ last.arg_before.history[1].output_snapshot # last.arg_before.current_output
    /\ state.current_output = last.arg_before.history[1].output_snapshot

\* A step that followed a restore: the third phase step, reached with a restore event as
\* the newest record.
C13_StepAfterRestore ==
    /\ StepReturned
    /\ Len(last.arg_before.history) = 3
    /\ last.arg_before.history[3].event_type = "restore"
    /\ Appended(last)[1].phase_step_index = 3

\* C20: for N >= 1 iterations, taken from the state or from RunOptions.iterations_override,
\* plan_steps returns 2N phase_step entries: additive, reductive, additive, ..., with
\* phase_step_index 1..2N in order and iteration_index = ceil(phase_step_index / 2); it
\* makes no LLM call and the state given to it, which the caller still holds, reads as
\* before.
C20_PlanStepsShape ==
    last.op = "plan_steps" =>
        LET N == IF last.options.present THEN last.options.v ELSE last.arg_before.iterations
            steps == last.planned
        IN  /\ (N >= 1) = (last.raised = NoError)
            /\ N >= 1 =>
                  /\ Len(steps) = 2 * N
                  /\ \A k \in 1..Len(steps) :
                        /\ steps[k].event_type = "phase_step"
                        /\ steps[k].phase_name = (IF k % 2 = 1 THEN "additive" ELSE "reductive")
                        /\ steps[k].phase_step_index = k
                        /\ 2 * steps[k].iteration_index \in {k, k + 1}
                        /\ steps[k].pair_index = steps[k].iteration_index
            /\ last.requests = 0
            /\ last.arg = last.arg_before
            /\ state = last.arg_before

\* C20 witness: a plan of 2 iterations given by the override, for a project whose own
\* iterations value is 1 and whose history is not empty.
C20_Witness ==
    /\ last.op = "plan_steps"
    /\ last.options = RunOptions(2)
    /\ last.arg_before.iterations = 1
    /\ Len(last.planned) = 4
    /\ last.planned[3].phase_name = "additive"
    /\ last.planned[3].iteration_index = 2
    /\ last.planned[4].phase_step_index = 4
    /\ Len(state.history) >= 1

\* The phase of the next step on a history: additive after an even number of phase_step
\* records, reductive after an odd number.
NextPhaseOn(records) ==
    IF Len(TaggedPhaseSteps(records)) % 2 = 0 THEN "additive" ELSE "reductive"

\* The template stored in st for the phase of its next step.
NextTemplate(st) ==
    IF NextPhaseOn(st.history) = "additive" THEN st.additive_prompt_template
    ELSE st.reductive_prompt_template

\* The template has no character other than whitespace.
WhitespaceOnly(template_text) ==
    \A i \in 1..Len(template_text) :
        template_text[i].kind = "lit" /\ template_text[i].v \in {"", " ", "  "}

\* C21: when the template stored for the next phase is empty or whitespace-only,
\* run_next_step raises a ValueError before any LLM request is issued, returns nothing and
\* appends nothing: the state given to it and the caller's state read as before.
C21_BlankTemplateFails ==
    (last.op = "run_next_step" /\ WhitespaceOnly(NextTemplate(last.arg_before))) =>
        /\ last.raised = ValueError("prompt template is empty.")
        /\ last.requests = 0
        /\ last.replies = <<>>
        /\ last.ret = NoState
        /\ last.local = NoState
        /\ last.arg = last.arg_before
        /\ (run.status = "idle" => state = last.arg_before)
        /\ (run.status # "idle" => run.status = "raised" /\ state = run.arg_before)

\* C21 witness: the second step of a run failed on an empty reductive template, after the
\* additive step had been applied.
C21_Witness ==
    /\ last.op = "run_next_step"
    /\ last.raised = ValueError("prompt template is empty.")
    /\ last.arg_before.reductive_prompt_template = <<>>
    /\ Len(TaggedPhaseSteps(last.arg_before.history)) = 1
    /\ run.status = "raised"
    /\ run.requests >= 1

\* C21 also for a template of blanks only: the first step of a project fails.
C21_WitnessWhitespace ==
    /\ last.op = "run_next_step"
    /\ last.raised = ValueError("prompt template is empty.")
    /\ last.arg_before.additive_prompt_template = <<Lit("  ")>>
    /\ last.arg_before.history = <<>>

\* C22: a call with an iteration count below 1 (state.iterations for run_next_step and
\* plan_steps, unless overridden; the effective count for run_iterations) fails, and it
\* fails before any LLM request is issued; the count is never replaced by 1.
C22_IterationsFailFast ==
    /\ (last.op = "run_next_step" /\ last.arg_before.iterations < 1) =>
          /\ last.raised # NoError
          /\ last.ret = NoState
          /\ last.requests = 0
    /\ (/\ last.op = "plan_steps"
        /\ (IF last.options.present THEN last.options.v ELSE last.arg_before.iterations) < 1) =>
          /\ last.raised = ValueError("Iterations must be >= 1.")
          /\ last.planned = <<>>
          /\ last.requests = 0
    /\ (run.status # "idle" /\ run.target_iterations < 1) =>
          /\ run.status = "raised"
          /\ run.raised = ValueError("iterations must be >= 1")
          /\ run.requests = 0
          /\ run.current_state = NoState

\* The tier the project asks for in a step of the given phase: the tier the caller passes
\* explicitly, and otherwise the tier configured for the phase.
ConfiguredTier(phase_name) ==
    IF caller_tier # "" THEN caller_tier ELSE phase_model_tier[phase_name]

\* C23: the phase call of a step is made at the tier configured for the phase of the step,
\* unless the caller passes a tier: the phase_step record names the model of that tier.
C23_PhaseTierUsed ==
    StepReturned =>
        Appended(last)[1].model_used = resolve_model(ConfiguredTier(Appended(last)[1].phase_name))

\* How many times the guidance block of the format stands in a prompt.
GuidanceBlocks(prompt, output_format) ==
    Cardinality({i \in 1..Len(prompt) : prompt[i] = Lit(get_format_guidance(output_format))})

\* C27: the prompt of a step carries the format guidance block at most once: it is
\* prepended only when the template brings no reference to the format with it.
C27_GuidanceAtMostOnce ==
    StepReturned =>
        GuidanceBlocks(Appended(last)[1].prompt_rendered, last.arg_before.output_format) <= 1

\* A step whose template holds {{FORMAT_GUIDANCE}} as written by the renderer's own token
\* list: the block is in the prompt once, from the template.
C27_GuidanceFromTemplate ==
    /\ StepReturned
    /\ last.arg_before.additive_prompt_template[1] = Tok("FORMAT_GUIDANCE")
    /\ Appended(last)[1].phase_name = "additive"
    /\ GuidanceBlocks(Appended(last)[1].prompt_rendered, last.arg_before.output_format) = 1

\* C28: missing required settings are never met in the middle of a run: once run_iterations
\* has started, no step of it fails with a configuration error.
C28_NoConfigErrorInRun ==
    run.status = "raised" => run.raised # ConfigError

\* Every record of another kind than phase_step has its phase fields at their defaults and
\* is left out by phase_step_history, so that the next step is numbered by the phase_step
\* records alone.
NonStepDefaults(st) ==
    /\ \A i \in 1..Len(st.history) :
          st.history[i].event_type \in {"prompt_architect", "repair", "restore"} =>
              /\ st.history[i].iteration_index = 0
              /\ st.history[i].phase_step_index = 0
              /\ st.history[i].phase_name = ""
              /\ ~IsPhaseStep(st.history[i])
    /\ phase_step_history(st.history) = TaggedPhaseSteps(st.history)
    /\ _next_phase_metadata(st).phase_step_index = Len(TaggedPhaseSteps(st.history)) + 1

\* C29: in every history the caller holds, a call returned or a run works on, each
\* prompt_architect, repair and restore record has iteration_index = 0, phase_step_index = 0
\* and an empty phase_name, and is not counted by phase_step_history when the next phase is
\* computed.
C29_NonStepRecordsUncounted ==
    /\ NonStepDefaults(state)
    /\ (last.ret.sid # 0 => NonStepDefaults(last.ret))
    /\ (last.local.sid # 0 => NonStepDefaults(last.local))
    /\ (run.current_state.sid # 0 => NonStepDefaults(run.current_state))

\* C29 witness: a history with one phase step and a record of each other kind.
C29_Witness ==
    /\ Len(state.history) = 4
    /\ {state.history[i].event_type : i \in 1..4}
          = {"phase_step", "prompt_architect", "repair", "restore"}
    /\ _next_phase_metadata(state).phase_name = "reductive"

\* C30: restore_history_snapshot with an index below 0, or at or beyond the length of the
\* history, raises IndexError and returns nothing; no restore event is appended and the
\* history given to it, which the caller still holds, reads as before.
C30_BadIndexRejected ==
    (/\ last.op = "restore_history_snapshot"
     /\ (last.record_index < 0 \/ last.record_index >= Len(last.arg_before.history))) =>
        /\ last.raised = IndexError("record_index is out of range.")
        /\ last.ret = NoState
        /\ last.arg = last.arg_before
        /\ state = last.arg_before
        /\ \A i \in 1..Len(state.history) :
              state.history[i].event_type = "restore" =>
                  i <= Len(last.arg_before.history)

\* C30 witness: index -1 on a history of two records.
C30_Witness ==
    /\ last.op = "restore_history_snapshot"
    /\ last.record_index = -1
    /\ last.raised.type = "IndexError"
    /\ Len(state.history) = 2

\* C30 also at the other end: the index equals the length of a history of three records;
\* and on an empty history, where every index is out of range.
C30_WitnessBeyond ==
    /\ last.op = "restore_history_snapshot"
    /\ last.record_index = 3
    /\ last.raised.type = "IndexError"
    /\ Len(state.history) = 3

C30_WitnessEmpty ==
    /\ last.op = "restore_history_snapshot"
    /\ last.record_index = 0
    /\ last.raised.type = "IndexError"
    /\ state.history = <<>>

\* C37: when a step of run_iterations raises, run_iterations raises the same error and
\* returns no result: the state built by the steps completed before it is gone, and the
\* caller still holds the state it passed in.
C37_RunRaisesWithoutResult ==
    /\ run.status = "raised" =>
          /\ run.raised # NoError
          /\ run.current_state = NoState
          /\ state = run.arg_before
          /\ Len(state.history) = Len(run.arg_before.history)
          /\ last.op = "run_next_step" => run.raised = last.raised
    /\ (last.op = "run_next_step" /\ last.raised # NoError /\ run.status # "idle") =>
          run.status = "raised"

\* The second step of a run fails at the LLM after the first one completed.
C37_Witness ==
    /\ run.status = "raised"
    /\ run.steps_completed = 1
    /\ run.raised.type = "LLMError"
    /\ last.op = "run_next_step"
    /\ Len(last.arg_before.history) > Len(state.history)

\* The second step of a run fails on its empty template after the first one completed.
C37_WitnessDomain ==
    /\ run.status = "raised"
    /\ run.steps_completed = 1
    /\ run.raised.type = "ValueError"
    /\ last.op = "run_next_step"

\* C38: a run that returns reports cancelled exactly when should_stop returned true at one
\* of its evaluations, each of which stands before a step; there is one evaluation per step
\* and none after the last, so a stop requested while the last step is in flight leaves
\* cancelled false and steps_completed at 2N.
C38_CancelledIffStopSeen ==
    /\ run.status = "returned" =>
          /\ run.cancelled <=> run.first_true # 0
          /\ run.has_stop => run.evals <= run.steps_target
          /\ (run.has_stop /\ ~run.cancelled) => run.evals = run.steps_target
          /\ (stop_requested /\ run.stop_step = run.steps_target) =>
                /\ ~run.cancelled
                /\ run.steps_completed = 2 * run.target_iterations
    /\ ~run.has_stop => (~run.cancelled /\ run.evals = 0)

\* The stop was requested while the last of the two steps was in flight.
C38_Witness ==
    /\ run.status = "returned"
    /\ run.has_stop
    /\ stop_requested
    /\ run.stop_step = 2
    /\ run.steps_target = 2
    /\ run.steps_completed = 2
    /\ ~run.cancelled
    /\ run.evals = 2

\* The stop was seen at the second evaluation.
C38_WitnessCancelled ==
    /\ run.status = "returned"
    /\ run.cancelled
    /\ run.first_true = 2
    /\ run.stop_step = 0

\* C39: a run of N iterations that completes on a state holding k phase_step records
\* appends 2N phase_step records numbered k+1 .. k+2N, odd numbers additive and even
\* numbers reductive: with k odd it starts with a reductive step and ends with an additive.
C39_RunContinuesHistory ==
    (run.status = "returned" /\ ~run.cancelled) =>
        LET k == Len(TaggedPhaseSteps(run.arg_before.history))
            steps == TaggedPhaseSteps(run.current_state.history)
            last_step == k + 2 * run.target_iterations
        IN  /\ Len(steps) = last_step
            /\ \A j \in (k + 1)..last_step :
                  /\ steps[j].phase_step_index = j
                  /\ steps[j].phase_name = IF j % 2 = 1 THEN "additive" ELSE "reductive"
                  /\ steps[j].iteration_index = (j + 1) \div 2
            /\ k % 2 = 1 =>
                  /\ steps[k + 1].phase_name = "reductive"
                  /\ steps[last_step].phase_name = "additive"

\* One iteration run on a state that holds one phase step: a reductive step numbered 2,
\* then an additive step numbered 3.
C39_Witness ==
    /\ run.status = "returned"
    /\ ~run.cancelled
    /\ run.target_iterations = 1
    /\ Len(TaggedPhaseSteps(run.arg_before.history)) = 1
    /\ Len(TaggedPhaseSteps(state.history)) = 3
    /\ TaggedPhaseSteps(state.history)[2].phase_name = "reductive"
    /\ TaggedPhaseSteps(state.history)[3].phase_name = "additive"
    /\ TaggedPhaseSteps(state.history)[3].phase_step_index = 3

\* The project asks for Markdown or plain text, in any letter case.
IsProse(output_format) == Upper(Strip(output_format)) \in {"MARKDOWN", "TEXT"}

\* C32: for Markdown and Text, in any letter case, validation is not applicable and ok
\* whatever the text; on such a project a step makes one LLM request and appends one record,
\* no history ever holds a repair record, and every phase_step record has an empty note.
C32_ProseNotValidated ==
    /\ \A output_format \in {"Markdown", "markdown", "MARKDOWN", "Text", "text", "TEXT"},
          text \in Texts \cup {""} :
          /\ ~validate_for_format(text, output_format).applicable
          /\ validate_for_format(text, output_format).ok
    /\ IsProse(state.output_format) =>
          /\ \A i \in 1..Len(state.history) :
                /\ state.history[i].event_type # "repair"
                /\ IsTaggedPhaseStep(state.history[i]) => state.history[i].note_summary = <<>>
          /\ (last.op = "run_next_step" /\ last.raised = NoError) =>
                /\ last.requests = 1
                /\ Len(Appended(last)) = 1
                /\ IsTaggedPhaseStep(Appended(last)[1])
                /\ Appended(last)[1].note_summary = <<>>
          /\ run.status \in {"running", "returned"} =>
                /\ run.requests = run.steps_completed
                /\ \A i \in 1..Len(run.current_state.history) :
                      run.current_state.history[i].event_type # "repair"

\* A step of a Markdown project that returned.
C32_Witness ==
    /\ last.op = "run_next_step"
    /\ last.raised = NoError
    /\ last.arg_before.output_format = "Markdown"
    /\ last.replies[1].v = TEXT_BROKEN
    /\ Len(state.history) >= 1

\* A run of a Markdown project that completed both of its steps.
C32_WitnessRun ==
    /\ run.status = "returned"
    /\ IsProse(state.output_format)
    /\ run.steps_completed = 2
    /\ run.requests = 2

----------------------------------------------------------------------------
(* Properties of the template renderer *)

IsKnownPlaceholder(piece) == piece.kind \in {"tok", "ptok"} /\ piece.v \in SUPPORTED_TOKENS

\* C31: render_template puts, in place of every placeholder whose name is in the fixed
\* vocabulary, the value the context holds for it, as text that is not scanned again, and
\* leaves every other piece of the template, unknown placeholders included, as written.
C31_RenderSinglePass ==
    applied.op = "render_template" =>
        LET template_text == applied.args.template_text
            context == applied.args.context
            rendered == applied.result
        IN  /\ Len(rendered) = Len(template_text)
            /\ \A i \in 1..Len(template_text) :
                  IF IsKnownPlaceholder(template_text[i])
                  THEN /\ rendered[i].kind = "lit"
                       /\ <<rendered[i]>> = context[template_text[i].v]
                  ELSE rendered[i] = template_text[i]

\* {{CURRENT_OUTPUT}} next to the unknown {{FOO}}, with a current output that itself reads
\* like a template: the output is inserted as it is and {{FOO}} is still there.
C31_Witness ==
    /\ applied.op = "render_template"
    /\ applied.args.template_text = <<Tok("CURRENT_OUTPUT"), Tok("FOO")>>
    /\ applied.result = <<Lit("Fill {{PHASE_NAME}} in"), Tok("FOO")>>

----------------------------------------------------------------------------
(* Properties of the prompt architect *)

\* The phases for which the last call of the architect returned a template.
ReturnedPhases ==
    IF architect.raised # NoError THEN {}
    ELSE IF architect.op = "generate_template_for_phase" THEN {architect.phase_name}
    ELSE IF architect.op = "generate_templates" THEN {"additive", "reductive"}
    ELSE IF architect.op = "generate_prompts_action"
    THEN {architect.calls[i].phase_name : i \in 1..Len(architect.calls)}
    ELSE {}

\* The text holds the placeholder written exactly as {{CURRENT_OUTPUT}}.
HasLiteralCurrentOutput(template_text) ==
    \E i \in 1..Len(template_text) : template_text[i] = Tok("CURRENT_OUTPUT")

\* The names of the {{TOKEN}} placeholders of a text, as the renderer finds them.
Placeholders(template_text) ==
    {template_text[i].v :
        i \in {j \in 1..Len(template_text) : template_text[j].kind \in {"tok", "ptok"}}}

\* C24: every template generate_templates or generate_template_for_phase returns holds the
\* literal {{CURRENT_OUTPUT}} placeholder and no placeholder of any other name, whatever the
\* LLM answered and whatever the project holds.
C24_TemplateTokensSafe ==
    \A phase_name \in ReturnedPhases :
        /\ HasLiteralCurrentOutput(architect.templates[phase_name])
        /\ Placeholders(architect.templates[phase_name]) \subseteq {"CURRENT_OUTPUT"}

\* The part of C24 that does hold: the literal placeholder is in every returned template.
C24_CurrentOutputPresent ==
    \A phase_name \in ReturnedPhases :
        HasLiteralCurrentOutput(architect.templates[phase_name])

\* The note of one phase in the notes of a call: the notes of the two phases are joined
\* by "; ", the additive one first.
HasSeparator(notes) == \E i \in 1..Len(notes) : notes[i] = "; "

SeparatorAt(notes) == CHOOSE i \in 1..Len(notes) : notes[i] = "; "

PhaseNote(notes, phase_name) ==
    IF ~HasSeparator(notes) THEN notes
    ELSE IF phase_name = "additive" THEN SubSeq(notes, 1, SeparatorAt(notes) - 1)
    ELSE SubSeq(notes, SeparatorAt(notes) + 1, Len(notes))

\* The generate_text call made for a phase raised an LLMError.
LLMFailedFor(i) == architect.calls[i].reply.kind = "error"

\* C25: an LLMError raised by the generate_text call of a phase does not leave the
\* architect: the call returns, the template of that phase is the deterministic fallback
\* template (not empty, holding the Current draft block), its note reads
\* '<phase>: fallback (<category>)', and in generate_templates the other phase is still
\* generated.  No PromptArchitectError follows a generate_text call, because no final
\* template is empty.
C25_LLMErrorFallsBack ==
    /\ \A i \in 1..Len(architect.calls) :
          LLMFailedFor(i) =>
             LET phase_name == architect.calls[i].phase_name
                 template == architect.templates[phase_name]
             IN  /\ architect.raised = NoError
                 /\ template = _build_fallback_template(architect.arg_before, phase_name,
                                                        FormatTarget(architect.arg_before))
                 /\ ~IsBlank(template)
                 /\ \E j \in 1..(Len(template) - 1) :
                       template[j] = Lit("Current draft:") /\ template[j + 1] = Tok("CURRENT_OUTPUT")
                 /\ PhaseNote(architect.notes, phase_name)
                       = <<phase_name, ": fallback (", architect.calls[i].reply.v, ")">>
                 /\ architect.op = "generate_templates" =>
                       /\ Len(architect.calls) = 2
                       /\ architect.calls[1].phase_name = "additive"
                       /\ architect.calls[2].phase_name = "reductive"
                       /\ ~IsBlank(architect.templates.additive)
                       /\ ~IsBlank(architect.templates.reductive)
    /\ architect.calls # <<>> => architect.raised.type \notin {"PromptArchitectError", "LLMError"}

\* generate_templates whose additive call failed on the network and whose reductive call
\* was answered: fallback for the first phase, the generated template for the second.
C25_Witness ==
    /\ architect.op = "generate_templates"
    /\ Len(architect.calls) = 2
    /\ architect.calls[1].reply = [kind |-> "error", v |-> "network"]
    /\ architect.calls[2].reply = [kind |-> "text", v |-> RAW_GOOD]
    /\ architect.raised = NoError
    /\ architect.templates.reductive = RAW_GOOD
    /\ architect.notes = <<"additive", ": fallback (", "network", ")", "; ",
                           "reductive", ": generated">>

\* generate_template_for_phase whose only call failed.
C25_WitnessPhase ==
    /\ architect.op = "generate_template_for_phase"
    /\ architect.phase_name = "reductive"
    /\ Len(architect.calls) = 1
    /\ LLMFailedFor(1)
    /\ architect.notes = <<"reductive", ": fallback (", "auth", ")">>

\* Both calls of generate_templates failed.
C25_WitnessBoth ==
    /\ architect.op = "generate_templates"
    /\ Len(architect.calls) = 2
    /\ LLMFailedFor(1)
    /\ LLMFailedFor(2)
    /\ architect.raised = NoError

\* The phases the last call of the architect made a generate_text call for.
CalledPhases == {architect.calls[i].phase_name : i \in 1..Len(architect.calls)}

\* The template field of a phase before the generate-prompts action.
ExistingTemplate(phase_name) ==
    IF phase_name = "additive" THEN architect.arg_before.additive_prompt_template
    ELSE architect.arg_before.reductive_prompt_template

\* C26: with the configuration present, the architect makes exactly one generate_text call
\* per requested phase, each at the premium tier: one for generate_template_for_phase, two
\* (additive, then reductive) for generate_templates, whatever the first call gave; the
\* generate-prompts action calls exactly for the phases whose template field is blank or
\* that overwrite asks for, so none for an existing template with overwrite off.
C26_OneCallPerPhase ==
    /\ \A i \in 1..Len(architect.calls) : architect.calls[i].tier = "premium"
    /\ \A i, j \in 1..Len(architect.calls) :
          i # j => architect.calls[i].phase_name # architect.calls[j].phase_name
    /\ (architect.op = "generate_template_for_phase" /\ architect.config_ok
           /\ architect.phase_name \in {"additive", "reductive"}) =>
          /\ Len(architect.calls) = 1
          /\ architect.calls[1].phase_name = architect.phase_name
    /\ (architect.op = "generate_templates" /\ architect.config_ok) =>
          /\ Len(architect.calls) = 2
          /\ architect.calls[1].phase_name = "additive"
          /\ architect.calls[2].phase_name = "reductive"
    /\ architect.op = "generate_prompts_action" =>
          \A phase_name \in {"additive", "reductive"} :
             phase_name \in CalledPhases <=>
                /\ architect.config_ok
                /\ architect.overwrite_existing \/ IsBlank(ExistingTemplate(phase_name))

\* The generate-prompts action with overwrite off, an additive template in place and no
\* reductive template: one call, for the reductive phase.
C26_Witness ==
    /\ architect.op = "generate_prompts_action"
    /\ ~architect.overwrite_existing
    /\ ~IsBlank(ExistingTemplate("additive"))
    /\ IsBlank(ExistingTemplate("reductive"))
    /\ Len(architect.calls) = 1
    /\ architect.calls[1].phase_name = "reductive"
    /\ architect.calls[1].tier = "premium"
    /\ architect.notes[1] = "additive: preserved"

\* The generate-prompts action with overwrite off and both templates in place: no call.
C26_WitnessSkipped ==
    /\ architect.op = "generate_prompts_action"
    /\ architect.config_ok
    /\ ~architect.overwrite_existing
    /\ ~IsBlank(ExistingTemplate("additive"))
    /\ ~IsBlank(ExistingTemplate("reductive"))
    /\ architect.calls = <<>>

\* generate_templates whose first call failed, or was answered with a text the quality
\* gate discards: the second call is made all the same.
C26_WitnessFirstFailed ==
    /\ architect.op = "generate_templates"
    /\ Len(architect.calls) = 2
    /\ architect.calls[1].reply = [kind |-> "error", v |-> "auth"]

C26_WitnessFirstDiscarded ==
    /\ architect.op = "generate_templates"
    /\ Len(architect.calls) = 2
    /\ architect.calls[1].reply = [kind |-> "text", v |-> RAW_LOW_QUALITY]
    /\ architect.notes[2] = ": generated"

\* The generate-prompts action with overwrite on and both templates in place: two calls.
C26_WitnessOverwrite ==
    /\ architect.op = "generate_prompts_action"
    /\ architect.overwrite_existing
    /\ ~IsBlank(ExistingTemplate("additive"))
    /\ ~IsBlank(ExistingTemplate("reductive"))
    /\ Len(architect.calls) = 2

----------------------------------------------------------------------------
(* Properties of the LLM client *)

\* A rate limit, a connection failure or timeout, or a status of 500 and above.
Transient(a) ==
    /\ a.kind = "error"
    /\ \/ a.cls \in {"RateLimitError", "APIConnectionError", "APITimeoutError"}
       \/ a.status >= 500

TransientCategory(a) ==
    IF a.cls = "RateLimitError" THEN "rate_limit"
    ELSE IF a.cls \in {"APIConnectionError", "APITimeoutError"} THEN "network"
    ELSE "server"

\* max(0, max_retries) + 1 for the max_retries the client was built with.
AttemptBudget == (IF client.max_retries_arg > 0 THEN client.max_retries_arg ELSE 0) + 1

\* C14: generate_text makes at most max(0, max_retries) + 1 attempts; an attempt that fails
\* transiently is followed by another one while the budget lasts; the call returns the
\* response of the first attempt that succeeds; when every attempt failed transiently it
\* raises LLMError with the category (rate_limit, network, server) of the last failure.
C14_TransientRetried ==
    LET n == Len(client.attempts)
    IN  /\ n <= AttemptBudget
        /\ client.attempt < AttemptBudget
        /\ client.status = "running" =>
              /\ n = client.attempt
              /\ \A i \in 1..n : Transient(client.attempts[i])
        /\ client.status = "returned" =>
              /\ n >= 1
              /\ client.attempts[n].kind = "completion"
              /\ \A i \in 1..(n - 1) : Transient(client.attempts[i])
              /\ client.ret.text = client.attempts[n].choices[1]
              /\ client.raised = NoError
        /\ (client.status = "raised" /\ n >= 1 /\ \A i \in 1..n : Transient(client.attempts[i])) =>
              /\ n = AttemptBudget
              /\ client.raised = LLMError(TransientCategory(client.attempts[n]))

\* C14 witness: three attempts failed, by rate limit, timeout and a 500 status; the call
\* raised the category of the last one.
C14_Witness ==
    /\ client.status = "raised"
    /\ client.max_retries_arg = 2
    /\ Len(client.attempts) = 3
    /\ client.attempts[1].cls = "RateLimitError"
    /\ client.attempts[2].cls = "APITimeoutError"
    /\ client.attempts[3].cls = "InternalServerError"
    /\ client.raised = LLMError("server")

\* An authentication failure, or a status error from 400 to 499 other than the rate limit
\* (a request rejection the client could not adapt to is one of them).
Terminal(a) ==
    /\ a.kind = "error"
    /\ a.cls # "RateLimitError"
    /\ \/ a.cls = "AuthenticationError"
       \/ (a.status >= 400 /\ a.status < 500)

\* C15: an authentication failure, a 4xx status error other than the rate limit, or a
\* request rejection the client cannot adapt to ends the call in the attempt in which it
\* occurs: LLMError auth or invalid_request is raised, no sleep follows it and no further
\* attempt is made, whatever the budget left.
C15_TerminalNotRetried ==
    LET n == Len(client.attempts)
    IN  \A i \in 1..n :
            Terminal(client.attempts[i]) =>
                /\ i = n
                /\ client.status = "raised"
                /\ client.attempt = n - 1
                /\ client.raised = LLMError(IF client.attempts[i].cls = "AuthenticationError"
                                            THEN "auth" ELSE "invalid_request")
                /\ Len(client.sleeps) = n - 1
                /\ client.log[Len(client.log)].error_category = client.raised.detail

\* C15 witness: a 403 in the first attempt of a client with two retries left.
C15_Witness ==
    /\ client.status = "raised"
    /\ client.max_retries = 2
    /\ Len(client.attempts) = 1
    /\ client.attempts[1].cls = "PermissionDeniedError"
    /\ client.raised = LLMError("invalid_request")
    /\ client.sleeps = <<>>

\* C16: one attempt sends at most 4 requests; when the fourth is rejected with a shape
\* error the client could adapt to, the attempt ends with LLMError invalid_request, which
\* is raised to the caller without another attempt.
C16_ShapeAdaptationBounded ==
    LET n == Len(client.attempts)
    IN  /\ Len(client.sent) <= 4
        /\ client.requests <= 4 * (client.attempt + 1)
        /\ client.status = "running" => Len(client.sent) < 4
        /\ \A i \in 1..n :
              (client.attempts[i].kind = "error" /\ client.attempts[i].cls = "LLMError") =>
                  /\ i = n
                  /\ Len(client.sent) = 4
                  /\ client.status = "raised"
                  /\ client.raised = LLMError("invalid_request")
                  /\ client.attempt = n - 1
                  /\ Len(client.sleeps) = n - 1

\* C16 witness: the token field flipped back and forth over four requests of the first
\* attempt of a client with retries left.
C16_Witness ==
    /\ client.status = "raised"
    /\ client.max_retries = 2
    /\ Len(client.attempts) = 1
    /\ Len(client.sent) = 4
    /\ client.sent[1].token_field = "max_completion_tokens"
    /\ client.sent[2].token_field = "max_tokens"
    /\ client.sent[3].token_field = "max_completion_tokens"
    /\ client.sent[4].token_field = "max_tokens"
    /\ client.raised = LLMError("invalid_request")

\* The request settings that differ between two requests.
SettingsChanged(a, b) ==
    {k \in {"token_field", "temperature", "web_search_options"} : a[k] # b[k]}

\* C17: between two consecutive requests of one attempt exactly one of the three settings
\* (token field name, temperature, search option) differs.
C17_OneSettingFlipped ==
    \A i \in 1..(Len(client.sent) - 1) :
        Cardinality(SettingsChanged(client.sent[i], client.sent[i + 1])) = 1

\* C18: every failure that leaves generate_text is an LLMError with one of the six
\* categories.
C18_OnlyNormalizedErrors ==
    client.status = "raised" =>
        /\ client.raised.type = "LLMError"
        /\ client.raised.detail \in ErrorCategory

\* C19: when generate_text has ended, every attempt it made has its log entry, with tier, model, prompt size and outcome
\* (success, or error and its category), the attempts that were retried included.
C19_EveryAttemptLogged ==
    client.status \in {"returned", "raised"} =>
    /\ Len(client.log) = Len(client.attempts)
    /\ \A i \in 1..Len(client.log) :
          /\ client.log[i].tier = client.tier
          /\ client.log[i].model = client.model
          /\ client.log[i].prompt_chars = Chars(client.system_text) + Chars(client.user_text)
          /\ client.log[i].outcome
                = (IF client.attempts[i].kind = "completion" THEN "success" ELSE "error")

\* The settings of a request as an attempt starts with them.
DefaultShape(request, model) ==
    /\ request.token_field = "max_completion_tokens"
    /\ request.temperature
    /\ request.web_search_options = (model \in {"gpt-5-search-api", "gpt-4o-search-preview"})

\* No more than four requests per attempt, attempts counted from the normalized max_retries.
RequestBudget == client.requests <= 4 * (client.max_retries + 1)

\* The first request of every attempt is sent with the default settings.
AttemptStartsFromDefaults ==
    client.sent # <<>> => DefaultShape(client.sent[1], client.model)

\* A step that passes to the next attempt puts the three settings back.
ShapeResetOnRetry ==
    (client.status = "running" /\ client'.status = "running"
        /\ client'.attempt = client.attempt + 1) =>
            /\ client'.sent = <<>>
            /\ client'.token_field = "max_completion_tokens"
            /\ client'.include_temperature
            /\ client'.include_web_search_options
                  = (client.model \in {"gpt-5-search-api", "gpt-4o-search-preview"})

\* C36: when every backend request returns or raises, a generate_text call that is running
\* ends, returning or raising, having sent at most 4 x (max_retries + 1) requests; each
\* attempt after a transient failure starts again from the default request settings.
C36_CallTerminatesWithinBudget ==
    /\ []RequestBudget
    /\ []AttemptStartsFromDefaults
    /\ [][ShapeResetOnRetry]_vars
    /\ (client.status = "running") ~> (client.status \in {"returned", "raised"})

\* A call with max_retries = 2 that used up its twelve requests.
C36_Witness ==
    /\ client.status \in {"returned", "raised"}
    /\ client.max_retries = 2
    /\ client.requests = 12
    /\ Len(client.attempts) = 3

\* The second attempt starts from the defaults after the first one had adapted its request.
C36_WitnessReset ==
    /\ client.attempt = 1
    /\ Len(client.sent) = 1
    /\ client.requests >= 3
    /\ DefaultShape(client.sent[1], client.model)


----------------------------------------------------------------------------
(* Properties of saving and loading *)

\* C33: a project saved and loaded again (schema_version 1) has every field value it had,
\* its title and per-phase model tiers among them, and its history with the same records
\* in the same order: saving writes a document, and loading a document of version 1 gives
\* a state whose fields and history items are those of the document.
C33_SaveLoadRoundTrip ==
    /\ applied.op = "save_project" => applied.result.raised = NoError
    /\ (/\ applied.op = "load_project"
        /\ "schema_version" \in DOMAIN applied.args
        /\ applied.args.schema_version \in SUPPORTED_SCHEMA_VERSIONS)
          => /\ applied.result.raised = NoError
             /\ \A k \in DOMAIN applied.args \ {"history"} :
                    applied.result.ret[k] = applied.args[k]
             /\ Len(applied.result.ret.history) = Len(applied.args.history)
             /\ \A i \in 1..Len(applied.args.history) :
                    \A k \in DOMAIN applied.args.history[i] :
                       applied.result.ret.history[i][k] = applied.args.history[i][k]


----------------------------------------------------------------------------
(* Properties of the page's handlers *)

\* A run request made while a run is active changes nothing but the notification.
RejectedStartsNothing ==
    ((run_next_step_action \/ run_iterations_action) /\ ui.is_run_active)
        => /\ ui' = [ui EXCEPT !.notified = "A run is already active."]
           /\ state' = state
           /\ stop_requested' = stop_requested

\* The notifications with which a run coroutine ends.
ExitMessages ==
    {"Run next step completed.", "Run next step failed.", "Run iterations completed.",
     "Run iterations failed.", "Run stopped."}

\* C34: engine steps of the page are serialized. While a run-next-step or run-iterations
\* action is active, a further request of either kind is turned away without starting an
\* engine call, so at most one run_next_step is in flight at any time; and is_run_active
\* is false again whenever a run has ended, by completion, stop or error.
C34_RunsSerialized ==
    /\ [](/\ ui.in_flight <= 1
          /\ (ui.in_flight = 1) <=> (ui.position = "in_flight")
          /\ ui.is_run_active <=> (ui.task # "none")
          /\ ui.notified \in ExitMessages => (~ui.is_run_active /\ ui.in_flight = 0))
    /\ [][RejectedStartsNothing]_vars

\* A request was turned away while a step was in flight.
C34_Witness == ui.notified = "A run is already active." /\ ui.in_flight = 1

\* A run of a project with a valid iteration count ended with an error and the flag is
\* cleared.
C34_WitnessError ==
    /\ ui.notified \in {"Run next step failed.", "Run iterations failed."}
    /\ state.iterations >= 1
    /\ ~ui.is_run_active

----------------------------------------------------------------------------
(* Properties of the agentctl wrapper *)

\* The value of a key of a decision or loop result, "" when the key is missing.
Value(d, key) == IF key \in DOMAIN d THEN d[key] ELSE ""

\* The decision recommends improvements because of the length of the work log.
WorkLogImprovements(decision) ==
    /\ Value(decision, "recommended_role") = "improvements"
    /\ "reason" \in DOMAIN decision
    /\ \E i \in 1..Len(decision.reason) : decision.reason[i] = "Work log has"

\* The last loop result is a completed improvements loop for the stage, checkpoint and
\* status (in any letter case) of the decision, with a known hint other than improvements.
HintApplies(decision, loop_result) ==
    /\ loop_result # None
    /\ Value(loop_result, "loop") = "improvements"
    /\ Value(loop_result, "result") = "completed"
    /\ Value(loop_result, "stage") = Value(decision, "stage")
    /\ Value(loop_result, "checkpoint") = Value(decision, "checkpoint")
    /\ Upper(Value(loop_result, "status")) = Upper(Value(decision, "status"))
    /\ Value(loop_result, "next_role_hint") \in DOMAIN ROLE_TO_PROMPT_ID \ {"improvements"}

\* C40: for a decision that recommends improvements with a reason containing 'Work log has'
\* the wrapper never prints the role improvements: it prints the hint of the last loop
\* result when that is a completed improvements loop for the same stage, checkpoint and
\* status with a known hint other than improvements, and implement otherwise, with the
\* prompt id of the printed role; every other decision is printed as it came in.
C40_WrapperOverridesImprovements ==
    applied.op = "agentctl next" =>
        IF WorkLogImprovements(applied.args.decision)
        THEN /\ applied.result.recommended_role # "improvements"
             /\ applied.result.recommended_role =
                    IF HintApplies(applied.args.decision, applied.args.loop_result)
                    THEN applied.args.loop_result.next_role_hint
                    ELSE "implement"
             /\ applied.result.recommended_prompt_id =
                    ROLE_TO_PROMPT_ID[applied.result.recommended_role]
        ELSE applied.result = applied.args.decision

\* The hint of the last loop result was printed in place of improvements.
C40_Witness ==
    /\ applied.op = "agentctl next"
    /\ WorkLogImprovements(applied.args.decision)
    /\ HintApplies(applied.args.decision, applied.args.loop_result)
    /\ applied.result.recommended_role = "review"

\* The last loop result is for another checkpoint and implement was printed.
C40_WitnessFallback ==
    /\ applied.op = "agentctl next"
    /\ WorkLogImprovements(applied.args.decision)
    /\ applied.args.loop_result # None
    /\ ~HintApplies(applied.args.decision, applied.args.loop_result)
    /\ applied.result.recommended_role = "implement"

\* A decision that recommends improvements for another reason was printed as it came in.
C40_WitnessPassed ==
    /\ applied.op = "agentctl next"
    /\ ~WorkLogImprovements(applied.args.decision)
    /\ applied.result.recommended_role = "improvements"

====
